---------------------------- MODULE Spec2Model ----------------------------
(***************************************************************************)
(* State-machine model of src/rust_generator.rs (cpp_to_rust): the pass    *)
(* that adapts a parsed C++ API to a Rust module tree plus an FFI table.   *)
(*                                                                         *)
(* Strings are sequences of one-character strings, so that tokenizing,     *)
(* case conversion, splitting on "::" and suffix stripping are computed    *)
(* and not assumed.  Option<T> is a sequence of length 0 (None) or 1       *)
(* (Some).  Result<T, String> is a record with a status.                   *)
(***************************************************************************)
EXTENDS Integers, Sequences, FiniteSets, TLC

(***************************************************************************)
(* Characters and strings                                                  *)
(***************************************************************************)
UpperChars == <<"A","B","C","D","E","F","G","H","I","J","K","L","M",
                "N","O","P","Q","R","S","T","U","V","W","X","Y","Z">>
LowerChars == <<"a","b","c","d","e","f","g","h","i","j","k","l","m",
                "n","o","p","q","r","s","t","u","v","w","x","y","z">>
DigitChars == <<"0","1","2","3","4","5","6","7","8","9">>

Range(s) == {s[i] : i \in 1..Len(s)}

IsUpper(c) == c \in Range(UpperChars)
IsLower(c) == c \in Range(LowerChars)
IsDigit(c) == c \in Range(DigitChars)

IndexIn(c, s) == CHOOSE i \in 1..Len(s) : s[i] = c

ToLowerChar(c) == IF IsUpper(c) THEN LowerChars[IndexIn(c, UpperChars)] ELSE c
ToUpperChar(c) == IF IsLower(c) THEN UpperChars[IndexIn(c, LowerChars)] ELSE c

\* str::to_lowercase
ToLowercase(s) == [i \in 1..Len(s) |-> ToLowerChar(s[i])]

\* str::ends_with
EndsWith(s, suffix) ==
  /\ Len(s) >= Len(suffix)
  /\ SubSeq(s, Len(s) - Len(suffix) + 1, Len(s)) = suffix

\* Vec<String>::join / concatenation of a list of strings with a separator
RECURSIVE JoinWith(_, _)
JoinWith(parts, sep) ==
  IF Len(parts) = 0 THEN <<>>
  ELSE IF Len(parts) = 1 THEN parts[1]
  ELSE parts[1] \o sep \o JoinWith(Tail(parts), sep)

\* str::split("::"): the pieces between the occurrences of "::"
RECURSIVE SplitFrom(_, _, _)
SplitFrom(s, i, cur) ==
  IF i > Len(s) THEN <<cur>>
  ELSE IF i < Len(s) /\ s[i] = ":" /\ s[i + 1] = ":"
       THEN <<cur>> \o SplitFrom(s, i + 2, <<>>)
       ELSE SplitFrom(s, i + 1, Append(cur, s[i]))

SplitColons(s) == SplitFrom(s, 1, <<>>)

(***************************************************************************)
(* utils::WordIterator and the case operations (utils.rs is not among the  *)
(* source files; modelled from the specification's section 4.1 and pinned  *)
(* by the tests at rust_generator.rs 918-976).                             *)
(* A word ends before an upper-case letter, before an underscore (which    *)
(* is dropped) and before the first digit of a digit run.                  *)
(***************************************************************************)
RECURSIVE WordEnd(_, _, _)
WordEnd(s, i, in_number) ==
  IF i > Len(s) THEN i
  ELSE IF s[i] = "_" \/ IsUpper(s[i]) THEN i
  ELSE IF ~in_number /\ IsDigit(s[i]) THEN i
  ELSE IF in_number /\ ~IsDigit(s[i]) THEN i
  ELSE WordEnd(s, i + 1, in_number)

RECURSIVE WordsFrom(_, _)
WordsFrom(s, i) ==
  IF i > Len(s) THEN <<>>
  ELSE IF s[i] = "_" THEN WordsFrom(s, i + 1)
  ELSE LET e == WordEnd(s, i + 1, IsDigit(s[i]))
       IN  <<SubSeq(s, i, e - 1)>> \o WordsFrom(s, e)

WordIterator(s) == WordsFrom(s, 1)

AllDigits(w) == \A i \in 1..Len(w) : IsDigit(w[i])

\* VecCaseOperations::to_snake_case: lower-cased words joined by "_"; a
\* digit run is attached to the word before it ("myFunc1" -> "my_func1").
RECURSIVE SnakeJoin(_, _)
SnakeJoin(parts, acc) ==
  IF Len(parts) = 0 THEN acc
  ELSE LET w == ToLowercase(parts[1])
       IN  SnakeJoin(Tail(parts),
                     IF Len(acc) = 0 \/ AllDigits(w) THEN acc \o w
                     ELSE acc \o <<"_">> \o w)

to_snake_case(parts) == SnakeJoin(parts, <<>>)

\* VecCaseOperations::to_class_case: each word capitalized, no separator.
Capitalize(w) ==
  IF Len(w) = 0 THEN w ELSE <<ToUpperChar(w[1])>> \o Tail(w)

RECURSIVE ClassJoin(_)
ClassJoin(parts) ==
  IF Len(parts) = 0 THEN <<>> ELSE Capitalize(parts[1]) \o ClassJoin(Tail(parts))

to_class_case(parts) == ClassJoin(parts)

\* CaseOperations for String: the same on the words of the string.
string_to_snake_case(s) == to_snake_case(WordIterator(s))
string_to_class_case(s) == to_class_case(WordIterator(s))

(***************************************************************************)
(* String literals of the source                                           *)
(***************************************************************************)
S_Q == <<"Q">>
S_q == <<"q">>
S_Qt == <<"Q","t">>
S_dot_h == <<".","h">>
S_self == <<"s","e","l","f">>
S_new == <<"n","e","w">>
S_delete == <<"d","e","l","e","t","e">>
S_drop == <<"d","r","o","p">>
S_Invalid == <<"_","I","n","v","a","l","i","d">>
S_overloading == <<"o","v","e","r","l","o","a","d","i","n","g">>
S_Params == <<"P","a","r","a","m","s">>
S_params == <<"p","a","r","a","m","s">>
S_original_self == <<"o","r","i","g","i","n","a","l","_","s","e","l","f">>
S_allocation_place_marker ==
  <<"a","l","l","o","c","a","t","i","o","n","_","p","l","a","c","e","_",
    "m","a","r","k","e","r">>
S_cpp_box == <<"c","p","p","_","b","o","x">>
S_RustManaged == <<"R","u","s","t","M","a","n","a","g","e","d">>
S_CppPointer == <<"C","p","p","P","o","i","n","t","e","r">>
S_libc == <<"l","i","b","c">>
S_c_void == <<"c","_","v","o","i","d">>
S_c_char == <<"c","_","c","h","a","r">>
S_c_schar == <<"c","_","s","c","h","a","r">>
S_c_uchar == <<"c","_","u","c","h","a","r">>
S_wchar_t == <<"w","c","h","a","r","_","t">>
S_c_short == <<"c","_","s","h","o","r","t">>
S_c_ushort == <<"c","_","u","s","h","o","r","t">>
S_c_int == <<"c","_","i","n","t">>
S_c_uint == <<"c","_","u","i","n","t">>
S_c_long == <<"c","_","l","o","n","g">>
S_c_ulong == <<"c","_","u","l","o","n","g">>
S_c_longlong == <<"c","_","l","o","n","g","l","o","n","g">>
S_c_ulonglong == <<"c","_","u","l","o","n","g","l","o","n","g">>
S_c_float == <<"c","_","f","l","o","a","t">>
S_c_double == <<"c","_","d","o","u","b","l","e">>
S_bool == <<"b","o","o","l">>
S_i8 == <<"i","8">>
S_u8 == <<"u","8">>
S_i16 == <<"i","1","6">>
S_u16 == <<"u","1","6">>
S_i32 == <<"i","3","2">>
S_u32 == <<"u","3","2">>
S_i64 == <<"i","6","4">>
S_u64 == <<"u","6","4">>
S_f32 == <<"f","3","2">>
S_f64 == <<"f","6","4">>
S_static == <<"s","t","a","t","i","c">>
S_from_value == <<"f","r","o","m","_","v","a","l","u","e">>
S_from_ref == <<"f","r","o","m","_","r","e","f">>
S_from_ptr == <<"f","r","o","m","_","p","t","r">>
S_isize == <<"i","s","i","z","e">>
S_usize == <<"u","s","i","z","e">>
S_qt_core == <<"q","t","_","c","o","r","e">>
S_flags == <<"f","l","a","g","s">>
S_QFlags == <<"Q","F","l","a","g","s">>

(***************************************************************************)
(* Identifier transform                                                    *)
(***************************************************************************)
\* enum Case
Case == {"Class", "Snake"}

\* The transform that does not take the lower-case q for a prefix
remove_qt_prefix_and_convert_caseUpperOnly(s, case, remove_qt_prefix) ==
  LET parts0 == WordIterator(s)
      parts  == IF /\ remove_qt_prefix
                   /\ Len(parts0) > 1
                   /\ (parts0[1] = S_Q \/ parts0[1] = S_Qt)
                THEN Tail(parts0)
                ELSE parts0
  IN  IF case = "Snake" THEN to_snake_case(parts) ELSE to_class_case(parts)

\* The transform that drops a prefix that is the only token
remove_qt_prefix_and_convert_caseSingleToken(s, case, remove_qt_prefix) ==
  LET parts0 == WordIterator(s)
      parts  == IF /\ remove_qt_prefix
                   /\ Len(parts0) > 0
                   /\ (parts0[1] = S_Q \/ parts0[1] = S_q \/ parts0[1] = S_Qt)
                THEN Tail(parts0)
                ELSE parts0
  IN  IF case = "Snake" THEN to_snake_case(parts) ELSE to_class_case(parts)

remove_qt_prefix_and_convert_case(s, case, remove_qt_prefix) ==
  LET parts0 == WordIterator(s)
      parts  == IF /\ remove_qt_prefix
                   /\ Len(parts0) > 1
                   /\ (parts0[1] = S_Q \/ parts0[1] = S_q \/ parts0[1] = S_Qt)
                THEN Tail(parts0)
                ELSE parts0
  IN  IF case = "Snake" THEN to_snake_case(parts) ELSE to_class_case(parts)

include_file_to_module_name(include_file, remove_qt_prefix) ==
  LET r == IF EndsWith(include_file, S_dot_h)
           THEN SubSeq(include_file, 1, Len(include_file) - 2)
           ELSE include_file
  IN  remove_qt_prefix_and_convert_case(r, "Snake", remove_qt_prefix)

ReservedWords ==
  { <<"a","s">>, <<"b","o","x">>, <<"d","o">>, <<"f","n">>, <<"f","o","r">>,
    <<"i","f">>, <<"i","n">>, <<"l","e","t">>, <<"m","o","d">>,
    <<"m","o","v","e">>, <<"m","u","t">>, <<"p","u","b">>, <<"r","e","f">>,
    <<"S","e","l","f">>, <<"s","e","l","f">>, <<"u","s","e">>,
    <<"t","y","p","e">>, <<"l","o","o","p">>, <<"i","m","p","l">>,
    <<"e","l","s","e">>, <<"e","n","u","m">>, <<"t","r","u","e">>,
    <<"p","r","i","v">>, <<"p","r","o","c">>, <<"p","u","r","e">>,
    <<"b","r","e","a","k">>, <<"c","o","n","s","t">>, <<"c","r","a","t","e">>,
    <<"f","a","l","s","e">>, <<"f","i","n","a","l">>, <<"m","a","c","r","o">>,
    <<"m","a","t","c","h">>, <<"s","u","p","e","r">>, <<"t","r","a","i","t">>,
    <<"w","h","e","r","e">>, <<"w","h","i","l","e">>, <<"y","i","e","l","d">>,
    <<"b","e","c","o","m","e">>, <<"e","x","t","e","r","n">>,
    <<"r","e","t","u","r","n">>, <<"s","i","z","e","o","f">>,
    <<"s","t","a","t","i","c">>, <<"s","t","r","u","c","t">>,
    <<"t","y","p","e","o","f">>, <<"u","n","s","a","f","e">>,
    <<"a","l","i","g","n","o","f">>, <<"u","n","s","i","z","e","d">>,
    <<"v","i","r","t","u","a","l">>, <<"a","b","s","t","r","a","c","t">>,
    <<"c","o","n","t","i","n","u","e">>, <<"o","f","f","s","e","t","o","f">>,
    <<"o","v","e","r","r","i","d","e">> }

sanitize_rust_identifier(name) ==
  IF name \in ReservedWords THEN name \o <<"_">> ELSE name

(***************************************************************************)
(* Name Map                                                                *)
(***************************************************************************)
\* RustName::new(parts) is the list of its parts; last_name is its last part.
last_name(rust_name) == rust_name[Len(rust_name)]

\* calculate_rust_name without the special case of lines 141-144
calculate_rust_nameUncollapsed(name, include_file, is_function, config) ==
  LET split_all   == SplitColons(name)
      split_parts == SubSeq(split_all, 1, Len(split_all) - 1)
      last_part   == remove_qt_prefix_and_convert_case(
                       split_all[Len(split_all)],
                       IF is_function THEN "Snake" ELSE "Class",
                       config.remove_qt_prefix)
      parts0 == <<config.crate_name,
                  include_file_to_module_name(include_file, config.remove_qt_prefix)>>
                \o [i \in 1..Len(split_parts) |->
                      remove_qt_prefix_and_convert_case(split_parts[i], "Snake",
                                                        config.remove_qt_prefix)]
  IN  Append(parts0, last_part)

\* config: [crate_name, module_blacklist, remove_qt_prefix]
calculate_rust_name(name, include_file, is_function, config) ==
  LET split_all   == SplitColons(name)
      split_parts == SubSeq(split_all, 1, Len(split_all) - 1)
      last_part   == remove_qt_prefix_and_convert_case(
                       split_all[Len(split_all)],
                       IF is_function THEN "Snake" ELSE "Class",
                       config.remove_qt_prefix)
      parts0 == <<config.crate_name,
                  include_file_to_module_name(include_file, config.remove_qt_prefix)>>
                \o [i \in 1..Len(split_parts) |->
                      remove_qt_prefix_and_convert_case(split_parts[i], "Snake",
                                                        config.remove_qt_prefix)]
      parts1 == IF Len(parts0) > 2 /\ parts0[2] = parts0[3]
                THEN SubSeq(parts0, 1, 2) \o SubSeq(parts0, 4, Len(parts0))
                ELSE parts0
  IN  Append(parts1, last_part)

(***************************************************************************)
(* Result<T, String> and panics.  status is "Ok", "Err" (the error string  *)
(* is kept as a short tag) or "Panic" (assert!, panic!, unwrap on None).   *)
(***************************************************************************)
Ok(v) == [status |-> "Ok", val |-> <<v>>, err |-> ""]
Err(e) == [status |-> "Err", val |-> <<>>, err |-> e]
Panic(e) == [status |-> "Panic", val |-> <<>>, err |-> e]

IsOk(r) == r.status = "Ok"
IsErr(r) == r.status = "Err"
IsPanic(r) == r.status = "Panic"

\* let x = v; F(x): v is evaluated once and F reads the value.
Let(v, F(_)) == CHOOSE r \in {F(x) : x \in {v}} : TRUE

\* try!(r) followed by F on the unwrapped value: a result that is not Ok is
\* returned as it is.
Try(r, F(_)) == Let(r, LAMBDA x : IF x.status = "Ok" THEN F(x.val[1]) ELSE x)

\* The first result of a list that is not Ok (try! in a loop), if any.
FirstBad(rs) ==
  LET bad == {i \in 1..Len(rs) : ~IsOk(rs[i])}
  IN  IF bad = {} THEN 0 ELSE CHOOSE i \in bad : \A j \in bad : i <= j

\* format!("{}", n) for a natural number
RECURSIVE DecimalString(_)
DecimalString(n) ==
  IF n < 10 THEN <<DigitChars[n + 1]>>
  ELSE DecimalString(n \div 10) \o <<DigitChars[(n % 10) + 1]>>

(***************************************************************************)
(* C++ types (cpp_type::CppType, cpp_ffi_data::CppFfiType) as the code     *)
(* reads them                                                              *)
(***************************************************************************)
CppType(base, indirection, is_const) ==
  [base |-> base, indirection |-> indirection, is_const |-> is_const]

BaseVoid == [kind |-> "Void"]
BaseBuiltIn(numeric) == [kind |-> "BuiltInNumeric", numeric |-> numeric]
BaseSpecific(bits, is_float, is_signed) ==
  [kind |-> "SpecificNumeric", bits |-> bits, is_float |-> is_float,
   is_signed |-> is_signed]
BasePointerSized(is_signed) == [kind |-> "PointerSizedInteger", is_signed |-> is_signed]
BaseEnum(name) == [kind |-> "Enum", name |-> name]
BaseClass(name, template_arguments) ==
  [kind |-> "Class", name |-> name, template_arguments |-> template_arguments]
BaseFunctionPointer(return_type, arguments, allows_variadic_arguments) ==
  [kind |-> "FunctionPointer", return_type |-> return_type, arguments |-> arguments,
   allows_variadic_arguments |-> allows_variadic_arguments]
BaseTemplateParameter == [kind |-> "TemplateParameter"]

\* CppType::void()
CppTypeVoid == CppType(BaseVoid, "None", FALSE)

CppFfiType(original_type, ffi_type, conversion) ==
  [original_type |-> original_type, ffi_type |-> ffi_type, conversion |-> conversion]

\* CppFfiType::void()
CppFfiTypeVoid == CppFfiType(CppTypeVoid, CppTypeVoid, "NoChange")

(***************************************************************************)
(* Rust types (rust_type::RustType)                                        *)
(***************************************************************************)
RustVoid == [kind |-> "Void"]
RustCommon(base, generic_arguments, indirection, is_const) ==
  [kind |-> "Common", base |-> base, generic_arguments |-> generic_arguments,
   indirection |-> indirection, is_const |-> is_const]
RustFunctionPointer(arguments, return_type) ==
  [kind |-> "FunctionPointer", arguments |-> arguments, return_type |-> return_type]

\* The libc alias of a built-in numeric kind; <<>> for a kind without one.
NumericOwnName(numeric) ==
  CASE numeric = "Char" -> S_c_char
    [] numeric = "SChar" -> S_c_schar
    [] numeric = "UChar" -> S_c_uchar
    [] numeric = "WChar" -> S_wchar_t
    [] numeric = "Short" -> S_c_short
    [] numeric = "UShort" -> S_c_ushort
    [] numeric = "Int" -> S_c_int
    [] numeric = "UInt" -> S_c_uint
    [] numeric = "Long" -> S_c_long
    [] numeric = "ULong" -> S_c_ulong
    [] numeric = "LongLong" -> S_c_longlong
    [] numeric = "ULongLong" -> S_c_ulonglong
    [] numeric = "Float" -> S_c_float
    [] numeric = "Double" -> S_c_double
    [] OTHER -> <<>>

\* HashMap::get on the Name Map
MapGet(map, name) == IF name \in DOMAIN map THEN <<map[name]>> ELSE <<>>

\* The indirection match that closes ffi_type.
FfiIndirection(rust_name, cpp_ffi_type) ==
  IF cpp_ffi_type.indirection \in {"None", "Ptr", "PtrPtr"}
  THEN Ok(RustCommon(rust_name, <<>>, cpp_ffi_type.indirection, cpp_ffi_type.is_const))
  ELSE Err("unsupported level of indirection")

\* RustGenerator::ffi_type; map is self.cpp_to_rust_type_map.
RECURSIVE ffi_type(_, _)
ffi_type(map, cpp_ffi_type) ==
  LET base == cpp_ffi_type.base
  IN  CASE base.kind = "Void" ->
             IF cpp_ffi_type.indirection = "None" THEN Ok(RustVoid)
             ELSE FfiIndirection(<<S_libc, S_c_void>>, cpp_ffi_type)
        [] base.kind = "BuiltInNumeric" ->
             IF base.numeric = "Bool" THEN FfiIndirection(<<S_bool>>, cpp_ffi_type)
             ELSE IF NumericOwnName(base.numeric) = <<>>
                  THEN Err("unsupported numeric type")
                  ELSE FfiIndirection(<<S_libc, NumericOwnName(base.numeric)>>,
                                      cpp_ffi_type)
        [] base.kind = "SpecificNumeric" ->
             LET letter == IF base.is_float THEN <<"f">>
                           ELSE IF base.is_signed THEN <<"i">> ELSE <<"u">>
             IN  FfiIndirection(<<letter \o DecimalString(base.bits)>>, cpp_ffi_type)
        [] base.kind = "PointerSizedInteger" ->
             FfiIndirection(<<IF base.is_signed THEN S_isize ELSE S_usize>>, cpp_ffi_type)
        [] base.kind = "Enum" ->
             IF MapGet(map, base.name) = <<>>
             THEN Err("Type has no Rust equivalent")
             ELSE FfiIndirection(map[base.name], cpp_ffi_type)
        [] base.kind = "Class" ->
             IF base.template_arguments # <<>>
             THEN Err("template types are not supported here yet")
             ELSE IF MapGet(map, base.name) = <<>>
                  THEN Err("Type has no Rust equivalent")
                  ELSE FfiIndirection(map[base.name], cpp_ffi_type)
        [] base.kind = "FunctionPointer" ->
             IF base.allows_variadic_arguments
             THEN Err("Function pointers with variadic arguments are not supported")
             ELSE Let([i \in 1..Len(base.arguments) |-> ffi_type(map, base.arguments[i])],
                      LAMBDA rust_args :
                        IF FirstBad(rust_args) # 0 THEN rust_args[FirstBad(rust_args)]
                        ELSE Try(ffi_type(map, base.return_type),
                                 LAMBDA rust_return_type :
                                   Ok(RustFunctionPointer(
                                        [i \in 1..Len(rust_args) |-> rust_args[i].val[1]],
                                        rust_return_type))))
        [] OTHER -> Panic("invalid cpp type")

(***************************************************************************)
(* CompleteType                                                            *)
(***************************************************************************)
CompleteType(cpp_ffi_type, rust_ffi_type, rust_api_type, rust_api_to_c_conversion) ==
  [cpp_ffi_type |-> cpp_ffi_type.ffi_type,
   cpp_type |-> cpp_ffi_type.original_type,
   cpp_to_ffi_conversion |-> cpp_ffi_type.conversion,
   rust_ffi_type |-> rust_ffi_type,
   rust_api_type |-> rust_api_type,
   rust_api_to_c_conversion |-> rust_api_to_c_conversion]

\* The indirection recipe of complete_type (lines 202-223): the API type and
\* the conversion tag, or a failed assert!.
ApiIndirection(rust_ffi_type, conversion, argument_meaning) ==
  IF rust_ffi_type.kind # "Common"
  THEN Ok([api |-> rust_ffi_type, conv |-> "None"])
  ELSE CASE conversion = "NoChange" ->
              IF argument_meaning = "This"
              THEN IF rust_ffi_type.indirection = "Ptr"
                   THEN Ok([api |-> [rust_ffi_type EXCEPT !.indirection = "Ref"],
                            conv |-> "RefToPtr"])
                   ELSE Panic("assertion failed")
              ELSE Ok([api |-> rust_ffi_type, conv |-> "None"])
         [] conversion = "ValueToPointer" ->
              IF rust_ffi_type.indirection = "Ptr"
              THEN Ok([api |-> [rust_ffi_type EXCEPT !.indirection = "None"],
                       conv |-> "ValueToPtr"])
              ELSE Panic("assertion failed")
         [] conversion = "ReferenceToPointer" ->
              IF rust_ffi_type.indirection = "Ptr"
              THEN Ok([api |-> [rust_ffi_type EXCEPT !.indirection = "Ref"],
                       conv |-> "RefToPtr"])
              ELSE Panic("assertion failed")
         [] OTHER -> Ok([api |-> rust_ffi_type, conv |-> "None"])

\* The QFlags rewrite of complete_type (lines 224-252).
QFlagsApiType(map, original_type) ==
  IF original_type.base.kind # "Class" THEN Panic("invalid original type for QFlags")
  ELSE IF original_type.base.template_arguments = <<>> THEN Panic("unwrap on None")
  ELSE LET args == original_type.base.template_arguments[1]
       IN  IF Len(args) # 1 THEN Panic("assertion failed")
           ELSE IF args[1].base.kind # "Enum"
                THEN Panic("invalid original type for QFlags")
           ELSE IF MapGet(map, args[1].base.name) = <<>>
                THEN Err("Type has no Rust equivalent")
           ELSE Ok(RustCommon(<<S_qt_core, S_flags, S_QFlags>>,
                              <<<<RustCommon(map[args[1].base.name], <<>>, "None", FALSE)>>>>,
                              "None", FALSE))

\* RustGenerator::complete_type
complete_type(map, cpp_ffi_type, argument_meaning) ==
  Try(ffi_type(map, cpp_ffi_type.ffi_type), LAMBDA rust_ffi_type :
    Try(ApiIndirection(rust_ffi_type, cpp_ffi_type.conversion, argument_meaning),
        LAMBDA ind :
          IF cpp_ffi_type.conversion = "QFlagsToUInt"
          THEN Try(QFlagsApiType(map, cpp_ffi_type.original_type), LAMBDA q :
                 Ok(CompleteType(cpp_ffi_type, rust_ffi_type, q, "QFlagsToUInt")))
          ELSE Ok(CompleteType(cpp_ffi_type, rust_ffi_type, ind.api, ind.conv))))

(***************************************************************************)
(* FFI functions                                                           *)
(***************************************************************************)
\* ffi_function reading the original types of the arguments instead of
\* their FFI types
ffi_functionOriginalTypes(map, data) ==
  Let([i \in 1..Len(data.c_signature.arguments) |->
         ffi_type(map, data.c_signature.arguments[i].argument_type.original_type)],
      LAMBDA args :
        IF FirstBad(args) # 0 THEN args[FirstBad(args)]
        ELSE Try(ffi_type(map, data.c_signature.return_type.ffi_type), LAMBDA ret :
               Ok([return_type |-> ret,
                   name |-> data.c_name,
                   arguments |-> [i \in 1..Len(args) |->
                      [name |-> sanitize_rust_identifier(
                                  data.c_signature.arguments[i].name),
                       argument_type |-> args[i].val[1]]]])))

\* RustGenerator::ffi_function; data is a CppAndFfiMethod
ffi_function(map, data) ==
  Let([i \in 1..Len(data.c_signature.arguments) |->
         ffi_type(map, data.c_signature.arguments[i].argument_type.ffi_type)],
      LAMBDA args :
        IF FirstBad(args) # 0 THEN args[FirstBad(args)]
        ELSE Try(ffi_type(map, data.c_signature.return_type.ffi_type), LAMBDA ret :
               Ok([return_type |-> ret,
                   name |-> data.c_name,
                   arguments |-> [i \in 1..Len(args) |->
                      [name |-> sanitize_rust_identifier(
                                  data.c_signature.arguments[i].name),
                       argument_type |-> args[i].val[1]]]])))

(***************************************************************************)
(* Methods (cpp_ffi_data::CppAndFfiMethod) as the code reads them          *)
(***************************************************************************)
\* CppMethod::is_constructor / is_destructor / is_operator / class_name
is_constructor(cpp_method) ==
  cpp_method.class_membership # <<>> /\ cpp_method.class_membership[1].kind = "Constructor"
is_destructor(cpp_method) ==
  cpp_method.class_membership # <<>> /\ cpp_method.class_membership[1].kind = "Destructor"
is_operator(cpp_method) == cpp_method.operator
class_name(cpp_method) ==
  IF cpp_method.class_membership = <<>> THEN <<>>
  ELSE <<cpp_method.class_membership[1].class_name>>

\* enum RustMethodScope
ScopeFree == [kind |-> "Free"]
ScopeImpl(type_name) == [kind |-> "Impl", type_name |-> type_name]
ScopeTraitImpl(type_name, trait_name) ==
  [kind |-> "TraitImpl", type_name |-> type_name, trait_name |-> trait_name]

\* method_rust_name without the sanitizing of lines 668-672
method_rust_nameUnsanitized(map, method) ==
  IF method.cpp_method.class_membership = <<>>
  THEN map[method.cpp_method.name]
  ELSE <<IF is_constructor(method.cpp_method) THEN S_new
         ELSE IF is_destructor(method.cpp_method) THEN S_delete
         ELSE string_to_snake_case(method.cpp_method.name)>>

\* RustGenerator::method_rust_name (a free function is in the Name Map: the
\* unwrap of a missing entry is a panic)
method_rust_name(map, method) ==
  Let(IF method.cpp_method.class_membership = <<>>
      THEN map[method.cpp_method.name]
      ELSE <<IF is_constructor(method.cpp_method) THEN S_new
             ELSE IF is_destructor(method.cpp_method) THEN S_delete
             ELSE string_to_snake_case(method.cpp_method.name)>>,
      LAMBDA name :
        Let(sanitize_rust_identifier(last_name(name)), LAMBDA sanitized :
          IF sanitized # last_name(name)
          THEN Append(SubSeq(name, 1, Len(name) - 1), sanitized)
          ELSE name))

\* The adjustment of an argument of a heap destructor (lines 581-591).
HeapDestructorArgument(t) ==
  IF t.rust_api_type.kind # "Common" THEN Panic("unexpected void type")
  ELSE IF t.rust_api_type.indirection # "Ref" THEN Panic("assertion failed")
  ELSE IF t.rust_api_to_c_conversion # "RefToPtr" THEN Panic("assertion failed")
  ELSE Ok([t EXCEPT !.rust_api_type.indirection = "None",
                    !.rust_api_to_c_conversion = "ValueToPtr"])

\* The argument loop of generate_function (lines 574-610), from argument i on.
\* acc is [arguments, return_type_info]; return_type_info is an Option of
\* [type, ffi_index].
RECURSIVE GenerateArguments(_, _, _, _)
GenerateArguments(map, method, i, acc) ==
  IF i > Len(method.c_signature.arguments) THEN Ok(acc)
  ELSE
    Try(complete_type(map, method.c_signature.arguments[i].argument_type,
                      method.c_signature.arguments[i].meaning),
        LAMBDA t :
          IF method.c_signature.arguments[i].meaning = "ReturnValue"
          THEN IF acc.return_type_info # <<>> THEN Panic("assertion failed")
               ELSE GenerateArguments(map, method, i + 1,
                      [acc EXCEPT !.return_type_info =
                         <<[type |-> t, ffi_index |-> <<i - 1>>]>>])
          ELSE
            Try(IF method.allocation_place = "Heap" /\ is_destructor(method.cpp_method)
                THEN HeapDestructorArgument(t) ELSE Ok(t),
                LAMBDA adjusted :
                  GenerateArguments(map, method, i + 1,
                    [acc EXCEPT !.arguments = Append(@,
                       [ffi_index |-> <<i - 1>>,
                        argument_type |-> adjusted,
                        name |-> IF method.c_signature.arguments[i].meaning = "This"
                                 THEN S_self
                                 ELSE sanitize_rust_identifier(
                                        string_to_snake_case(
                                          method.c_signature.arguments[i].name))])])))

\* The adjustment of the return type of a heap-allocating method that
\* leaves the conversion tag as it was
HeapReturnTypeTagKept(t) ==
  IF t.rust_api_type.kind # "Common" THEN Panic("unexpected void type")
  ELSE IF t.rust_api_type.indirection # "None" THEN Panic("assertion failed")
  ELSE IF t.cpp_type.indirection # "None" THEN Panic("assertion failed")
  ELSE IF t.cpp_to_ffi_conversion # "ValueToPointer" THEN Panic("assertion failed")
  ELSE IF t.rust_api_to_c_conversion # "ValueToPtr" THEN Panic("assertion failed")
  ELSE Ok([t EXCEPT !.rust_api_type.indirection = "Ptr"])

\* The adjustment of the return type of a heap-allocating method
\* (lines 615-628).
HeapReturnType(t) ==
  IF t.rust_api_type.kind # "Common" THEN Panic("unexpected void type")
  ELSE IF t.rust_api_type.indirection # "None" THEN Panic("assertion failed")
  ELSE IF t.cpp_type.indirection # "None" THEN Panic("assertion failed")
  ELSE IF t.cpp_to_ffi_conversion # "ValueToPointer" THEN Panic("assertion failed")
  ELSE IF t.rust_api_to_c_conversion # "ValueToPtr" THEN Panic("assertion failed")
  ELSE Ok([t EXCEPT !.rust_api_type.indirection = "Ptr",
                    !.rust_api_to_c_conversion = "None"])

\* The return type of generate_function when no argument carries it
\* (lines 611-636).
GenerateReturnType(map, method) ==
  Try(complete_type(map, method.c_signature.return_type, "ReturnValue"), LAMBDA t :
    IF method.allocation_place = "Heap" /\ ~is_destructor(method.cpp_method)
    THEN HeapReturnType(t)
    ELSE Ok(t))

\* RustGenerator::generate_function
generate_function(map, method, scope) ==
  IF is_operator(method.cpp_method) THEN Err("operators are not supported yet")
  ELSE
    Try(GenerateArguments(map, method, 1,
                          [arguments |-> <<>>, return_type_info |-> <<>>]),
        LAMBDA a :
          Try(IF a.return_type_info = <<>>
              THEN Try(GenerateReturnType(map, method), LAMBDA r :
                     Ok([type |-> r, ffi_index |-> <<>>]))
              ELSE IF method.c_signature.return_type = CppFfiTypeVoid
                   THEN Ok(a.return_type_info[1])
                   ELSE Panic("assertion failed"),
              LAMBDA ret :
                Ok([name |-> method_rust_name(map, method),
                    scope |-> scope,
                    arguments |->
                      [kind |-> "SingleVariant",
                       arguments |-> a.arguments,
                       cpp_method |-> method,
                       return_type |-> ret.type,
                       return_type_ffi_index |-> ret.ffi_index]])))

(***************************************************************************)
(* Hash containers.  A HashSet or HashMap is iterated in an order the      *)
(* program does not control; seed stands for the hasher's random state,    *)
(* and HashOrder(S, seed) is the order in which S is iterated under it.    *)
(***************************************************************************)
RECURSIVE SetToSeq(_)
SetToSeq(S) ==
  IF S = {} THEN <<>>
  ELSE LET x == CHOOSE y \in S : TRUE IN <<x>> \o SetToSeq(S \ {x})

RECURSIVE HashOrder(_, _)
HashOrder(S, seed) ==
  IF S = {} THEN <<>>
  ELSE LET n == Cardinality(S)
           x == SetToSeq(S)[(seed % n) + 1]
       IN  <<x>> \o HashOrder(S \ {x}, seed \div n)

RECURSIVE Flatten(_)
Flatten(ss) == IF Len(ss) = 0 THEN <<>> ELSE ss[1] \o Flatten(Tail(ss))

(***************************************************************************)
(* rust_info / rust_type helpers that are not among the source files,      *)
(* modelled from the specification's section 4.5                           *)
(***************************************************************************)
\* RustMethod::self_arg_kind: the receiver kind of a callable
self_arg_kind(method) ==
  LET args == IF method.arguments.kind = "SingleVariant"
              THEN method.arguments.arguments
              ELSE method.arguments.shared_arguments
  IN  IF Len(args) > 0 /\ args[1].name = S_self
      THEN LET t == args[1].argument_type.rust_api_type
           IN  IF t.kind = "Common" /\ t.indirection = "Ref" THEN "by_reference"
               ELSE IF t.kind = "Common" /\ t.indirection = "None" THEN "by_value"
               ELSE "by_pointer"
      ELSE "none"

\* RustMethodSelfArgKind::caption
caption(kind) ==
  CASE kind = "none" -> S_static
    [] kind = "by_value" -> S_from_value
    [] kind = "by_reference" -> S_from_ref
    [] OTHER -> S_from_ptr

\* RustType::dealias_libc: a libc numeric alias becomes the fixed-width
\* primitive it stands for.
DealiasName(own_name) ==
  CASE own_name = S_c_char -> S_i8
    [] own_name = S_c_schar -> S_i8
    [] own_name = S_c_uchar -> S_u8
    [] own_name = S_wchar_t -> S_i32
    [] own_name = S_c_short -> S_i16
    [] own_name = S_c_ushort -> S_u16
    [] own_name = S_c_int -> S_i32
    [] own_name = S_c_uint -> S_u32
    [] own_name = S_c_long -> S_i64
    [] own_name = S_c_ulong -> S_u64
    [] own_name = S_c_longlong -> S_i64
    [] own_name = S_c_ulonglong -> S_u64
    [] own_name = S_c_float -> S_f32
    [] own_name = S_c_double -> S_f64
    [] OTHER -> <<>>

dealias_libc(t) ==
  IF /\ t.kind = "Common"
     /\ Len(t.base) = 2
     /\ t.base[1] = S_libc
     /\ DealiasName(t.base[2]) # <<>>
  THEN [t EXCEPT !.base = <<DealiasName(t.base[2])>>]
  ELSE t

\* RustType::is_ref
is_ref(t) == t.kind = "Common" /\ t.indirection = "Ref"

(***************************************************************************)
(* Overload resolver: RustGenerator::process_functions                     *)
(***************************************************************************)
AllocationPlaces == {"Stack", "Heap", "NotApplicable"}

\* enum TraitName
TraitDrop == [kind |-> "Drop"]
TraitCppDeletable(deleter_name) == [kind |-> "CppDeletable", deleter_name |-> deleter_name]

\* The first loop with the error of generate_function unwrapped instead of
\* matched: a failed method ends the run.
FailedMethodUnwrapped(r) == Panic("unwrap on Err")

\* What the first loop of process_functions keeps of a method for which
\* generate_function returned Err (lines 700-703 and 729): a warning is
\* logged and the loop goes on.
FailedMethod(r) == Ok([single |-> <<>>, trait_impls |-> <<>>])

\* The Stack arm without the renaming of the method to drop
StackDestructorUnrenamed(rust_method, scope) ==
  Ok([single |-> <<>>,
      trait_impls |->
        <<[target_type |-> scope.type_name,
           trait_name |-> TraitDrop,
           methods |-> <<[rust_method EXCEPT
                            !.scope = ScopeTraitImpl(scope.type_name, TraitDrop)]>>]>>])

\* The arm of a destructor with allocation place Stack whose function was
\* generated (lines 688-699)
StackDestructor(rust_method, scope) ==
  Ok([single |-> <<>>,
      trait_impls |->
        <<[target_type |-> scope.type_name,
           trait_name |-> TraitDrop,
           methods |-> <<[rust_method EXCEPT
                            !.name = <<S_drop>>,
                            !.scope = ScopeTraitImpl(scope.type_name, TraitDrop)]>>]>>])

\* The arm of a destructor with allocation place Heap (lines 706-713)
HeapDestructor(method, scope) ==
  Ok([single |-> <<>>,
      trait_impls |-> <<[target_type |-> scope.type_name,
                         trait_name |-> TraitCppDeletable(method.c_name),
                         methods |-> <<>>]>>])

\* The first loop without the Heap arm: a destructor with allocation place
\* Heap is treated as one with allocation place Stack
ProcessOneMethodNoHeapArm(map, method, scope) ==
  IF is_destructor(method.cpp_method) /\ scope.kind # "Impl"
  THEN Panic("destructor must be in class scope")
  ELSE IF is_destructor(method.cpp_method) /\ method.allocation_place = "NotApplicable"
  THEN Panic("destructor must have allocation place")
  ELSE Let(generate_function(map, method, scope), LAMBDA r :
         IF IsPanic(r) THEN r
         ELSE IF IsErr(r) THEN FailedMethod(r)
         ELSE IF is_destructor(method.cpp_method)
         THEN StackDestructor(r.val[1], scope)
         ELSE Ok([single |-> <<r.val[1]>>, trait_impls |-> <<>>]))

\* The first loop of process_functions (lines 682-732) for one method: what
\* it adds to single_rust_methods and to result.trait_impls, or a panic.
ProcessOneMethod(map, method, scope) ==
  IF is_destructor(method.cpp_method) /\ scope.kind # "Impl"
  THEN Panic("destructor must be in class scope")
  ELSE IF is_destructor(method.cpp_method) /\ method.allocation_place = "Heap"
  THEN HeapDestructor(method, scope)
  ELSE IF is_destructor(method.cpp_method) /\ method.allocation_place # "Stack"
  THEN Panic("destructor must have allocation place")
  ELSE Let(generate_function(map, method, scope), LAMBDA r :
         IF IsPanic(r) THEN r
         ELSE IF IsErr(r) THEN FailedMethod(r)
         ELSE IF is_destructor(method.cpp_method)
         THEN StackDestructor(r.val[1], scope)
         ELSE Ok([single |-> <<r.val[1]>>, trait_impls |-> <<>>]))

\* The filter keyed by the argument types only: one set of seen lists for
\* all allocation places
RECURSIVE FilterMethodsOnePlace(_, _, _)
FilterMethodsOnePlace(overloaded_methods, seen, acc) ==
  IF Len(overloaded_methods) = 0 THEN acc
  ELSE LET method == overloaded_methods[1]
           args == method.arguments
           real_args == [i \in 1..Len(args.arguments) |->
                           dealias_libc(args.arguments[i].argument_type.rust_api_type)]
       IN  IF real_args \in seen["NotApplicable"]
           THEN FilterMethodsOnePlace(Tail(overloaded_methods), seen, acc)
           ELSE FilterMethodsOnePlace(Tail(overloaded_methods),
                                      [seen EXCEPT !["NotApplicable"] = @ \cup {real_args}],
                                      Append(acc, method))

\* The duplicate filter of one bucket (lines 758-786): seen maps each
\* allocation place to the argument-type lists met so far.
RECURSIVE FilterMethods(_, _, _)
FilterMethods(overloaded_methods, seen, acc) ==
  IF Len(overloaded_methods) = 0 THEN acc
  ELSE LET method == overloaded_methods[1]
           args == method.arguments
           real_args == [i \in 1..Len(args.arguments) |->
                           dealias_libc(args.arguments[i].argument_type.rust_api_type)]
           place == args.cpp_method.allocation_place
       IN  IF real_args \in seen[place]
           THEN FilterMethods(Tail(overloaded_methods), seen, acc)
           ELSE FilterMethods(Tail(overloaded_methods),
                              [seen EXCEPT ![place] = @ \cup {real_args}],
                              Append(acc, method))

\* allocation_place_marker (lines 810-828)
allocation_place_marker(marker_name) ==
  [name |-> S_allocation_place_marker,
   ffi_index |-> <<>>,
   argument_type |->
     [cpp_type |-> CppTypeVoid,
      cpp_ffi_type |-> CppTypeVoid,
      cpp_to_ffi_conversion |-> "NoChange",
      rust_ffi_type |-> RustVoid,
      rust_api_type |-> RustCommon(<<S_cpp_box, marker_name>>, <<>>, "None", FALSE),
      rust_api_to_c_conversion |-> "None"]]

\* One argument variant of a dispatch trait without the match of lines
\* 829-837: no marker is appended
ArgsVariantUnmarked(method, first_method, self_argument) ==
  IF method.name # first_method.name \/ method.scope # first_method.scope
  THEN Panic("assertion failed")
  ELSE IF self_argument = <<>> THEN Ok(method.arguments)
  ELSE IF /\ Len(method.arguments.arguments) > 0
          /\ method.arguments.arguments[1] = self_argument[1]
       THEN Ok([method.arguments EXCEPT !.arguments = Tail(@)])
       ELSE Panic("assertion failed")

\* One argument variant of a dispatch trait (lines 802-842): the shared
\* receiver removed, the allocation-place marker appended.
ArgsVariant(method, first_method, self_argument) ==
  IF method.name # first_method.name \/ method.scope # first_method.scope
  THEN Panic("assertion failed")
  ELSE LET args == method.arguments
           without_self ==
             IF self_argument = <<>> THEN Ok(args.arguments)
             ELSE IF Len(args.arguments) > 0 /\ args.arguments[1] = self_argument[1]
                  THEN Ok(Tail(args.arguments))
                  ELSE Panic("assertion failed")
       IN  IF ~IsOk(without_self) THEN without_self
           ELSE Ok([args EXCEPT !.arguments =
                      CASE args.cpp_method.allocation_place = "Stack" ->
                             Append(without_self.val[1],
                                    allocation_place_marker(S_RustManaged))
                        [] args.cpp_method.allocation_place = "Heap" ->
                             Append(without_self.val[1],
                                    allocation_place_marker(S_CppPointer))
                        [] OTHER -> without_self.val[1]])

\* The name of the dispatch trait of a bucket (lines 748-755)
TraitNameOf(scope, method_name, kind, use_self_arg_caption) ==
  LET n1 == IF use_self_arg_caption THEN method_name \o caption(kind) ELSE method_name
      n2 == string_to_class_case(n1) \o S_Params
  IN  IF scope.kind = "Impl" THEN last_name(scope.type_name) \o n2 ELSE n2

\* The callable of a bucket left under its bare name
Uncaptioned(method, kind, use_self_arg_caption) == method

\* The caption appended to the name of the callable of a bucket
\* (lines 879-884)
Captioned(method, kind, use_self_arg_caption) ==
  IF use_self_arg_caption
  THEN [method EXCEPT !.name =
          Append(SubSeq(@, 1, Len(@) - 1), last_name(@) \o <<"_">> \o caption(kind))]
  ELSE method

\* The self argument shared by the variants of a bucket (lines 790-800)
SelfArgument(first_method) ==
  IF /\ Len(first_method.arguments.arguments) > 0
     /\ first_method.arguments.arguments[1].name = S_self
  THEN <<first_method.arguments.arguments[1]>>
  ELSE <<>>

\* The shared arguments of a dispatch trait (lines 843-848)
SharedArguments(self_argument) ==
  IF self_argument = <<>> THEN <<>>
  ELSE <<[self_argument[1] EXCEPT !.name = S_original_self]>>

\* The lifetime of a dispatch trait (lines 849-854)
TraitLifetime(shared_arguments) ==
  IF \E i \in 1..Len(shared_arguments) :
       is_ref(shared_arguments[i].argument_type.rust_api_type)
  THEN <<<<"a">>>> ELSE <<>>

\* A bucket of more than one method (lines 787-872): the multi-shape
\* callable and its dispatch trait.
MultipleVariants(trait_name, filtered_methods, kind, use_self_arg_caption) ==
  Let([i \in 1..Len(filtered_methods) |->
         ArgsVariant(filtered_methods[i], filtered_methods[1],
                     SelfArgument(filtered_methods[1]))],
      LAMBDA variants :
        IF FirstBad(variants) # 0 THEN variants[FirstBad(variants)]
        ELSE
          Let(SharedArguments(SelfArgument(filtered_methods[1])),
              LAMBDA shared_arguments :
                Ok([method |-> Captioned(
                      [name |-> filtered_methods[1].name,
                       scope |-> filtered_methods[1].scope,
                       arguments |->
                         [kind |-> "MultipleVariants",
                          params_trait_name |-> trait_name,
                          params_trait_lifetime |-> TraitLifetime(shared_arguments),
                          shared_arguments |-> shared_arguments,
                          variant_argument_name |-> S_params]],
                      kind, use_self_arg_caption),
                    overloading_types |->
                      <<[name |-> trait_name,
                         kind |-> [kind |-> "MethodParametersTrait",
                                   shared_arguments |-> shared_arguments,
                                   impls |-> [i \in 1..Len(variants) |->
                                                variants[i].val[1]],
                                   lifetime |-> TraitLifetime(shared_arguments)]]>>])))

\* The loop body making a dispatch trait only from three variants on
ProcessBucketFromThree(scope, method_name, kind, overloaded_methods, use_self_arg_caption) ==
  Let([trait_name |-> TraitNameOf(scope, method_name, kind, use_self_arg_caption),
       filtered_methods |->
         FilterMethods(overloaded_methods, [p \in AllocationPlaces |-> {}], <<>>)],
      LAMBDA b :
        IF Len(b.filtered_methods) > 2
        THEN MultipleVariants(b.trait_name, b.filtered_methods, kind, use_self_arg_caption)
        ELSE Ok([method |-> Captioned(b.filtered_methods[Len(b.filtered_methods)],
                                      kind, use_self_arg_caption),
                 overloading_types |-> <<>>]))

\* The body of the loop over the receiver-kind buckets (lines 746-886): the
\* callable emitted for the bucket and the dispatch trait, if one is made.
ProcessBucket(scope, method_name, kind, overloaded_methods, use_self_arg_caption) ==
  Let([trait_name |-> TraitNameOf(scope, method_name, kind, use_self_arg_caption),
       filtered_methods |->
         FilterMethods(overloaded_methods, [p \in AllocationPlaces |-> {}], <<>>)],
      LAMBDA b :
        IF Len(b.filtered_methods) > 1
        THEN MultipleVariants(b.trait_name, b.filtered_methods, kind, use_self_arg_caption)
        ELSE Ok([method |-> Captioned(b.filtered_methods[Len(b.filtered_methods)],
                                      kind, use_self_arg_caption),
                 overloading_types |-> <<>>]))

\* The loop over method_names (lines 734-887) for one name: the buckets by
\* receiver kind, each kept in input order (add_to_multihash pushes).
ProcessName(scope, method_name, single_rust_methods, seed) ==
  Let(SelectSeq(single_rust_methods, LAMBDA m : last_name(m.name) = method_name),
      LAMBDA current_methods :
        Let({self_arg_kind(current_methods[i]) : i \in 1..Len(current_methods)},
            LAMBDA kinds :
              Let(HashOrder(kinds, seed), LAMBDA order :
                [i \in 1..Len(order) |->
                   ProcessBucket(scope, method_name, order[i],
                                 SelectSeq(current_methods,
                                           LAMBDA m : self_arg_kind(m) = order[i]),
                                 Cardinality(kinds) > 1)])))

\* The second loop of process_functions (lines 734-887) over the names of
\* single_rust_methods, with the trait impls of the first loop.
ProcessNames(scope, single_rust_methods, trait_impls, seed) ==
  Let(HashOrder({last_name(single_rust_methods[i].name) :
                   i \in 1..Len(single_rust_methods)}, seed),
      LAMBDA names :
        Let(Flatten([i \in 1..Len(names) |->
                       ProcessName(scope, names[i], single_rust_methods, seed)]),
            LAMBDA buckets :
              IF FirstBad(buckets) # 0 THEN buckets[FirstBad(buckets)]
              ELSE Ok([methods |-> [i \in 1..Len(buckets) |-> buckets[i].val[1].method],
                       trait_impls |-> trait_impls,
                       overloading_types |->
                         Flatten([i \in 1..Len(buckets) |->
                                    buckets[i].val[1].overloading_types])])))

\* RustGenerator::process_functions -> ProcessFunctionsResult
process_functions(map, methods, scope, seed) ==
  Let([i \in 1..Len(methods) |-> ProcessOneMethod(map, methods[i], scope)],
      LAMBDA firsts :
        IF FirstBad(firsts) # 0 THEN firsts[FirstBad(firsts)]
        ELSE ProcessNames(scope,
                          Flatten([i \in 1..Len(firsts) |-> firsts[i].val[1].single]),
                          Flatten([i \in 1..Len(firsts) |-> firsts[i].val[1].trait_impls]),
                          seed))

(***************************************************************************)
(* Types: RustGenerator::process_type                                      *)
(***************************************************************************)
\* The value_to_variant loop in which the last variant seen with a value
\* keeps it
RECURSIVE CollectEnumValuesLastWins(_, _)
CollectEnumValuesLastWins(values, v2v) ==
  IF Len(values) = 0 THEN v2v
  ELSE LET variant == values[1]
       IN  CollectEnumValuesLastWins(
             Tail(values),
             (variant.value :> [name |-> string_to_class_case(variant.name),
                                value |-> variant.value]) @@ v2v)

\* The enum arm's value_to_variant loop (lines 383-399): the first variant
\* seen with a value keeps it.  v2v is the HashMap<i64, EnumValue>.
RECURSIVE CollectEnumValues(_, _)
CollectEnumValues(values, v2v) ==
  IF Len(values) = 0 THEN v2v
  ELSE LET variant == values[1]
       IN  CollectEnumValues(
             Tail(values),
             IF variant.value \in DOMAIN v2v THEN v2v
             ELSE v2v @@ (variant.value :>
                            [name |-> string_to_class_case(variant.name),
                             value |-> variant.value]))

\* The padding of a single-valued enum (lines 400-411)
PadEnumValues(v2v) ==
  IF Cardinality(DOMAIN v2v) = 1
  THEN LET dummy_value == IF 0 \in DOMAIN v2v THEN 1 ELSE 0
       IN  v2v @@ (dummy_value :> [name |-> S_Invalid, value |-> dummy_value])
  ELSE v2v

\* values.sort_by(|a, b| a.value.cmp(&b.value)) on the map's entries
RECURSIVE SortByValue(_)
SortByValue(v2v) ==
  IF DOMAIN v2v = {} THEN <<>>
  ELSE LET least == CHOOSE v \in DOMAIN v2v : \A w \in DOMAIN v2v : v <= w
       IN  <<v2v[least]>> \o
           SortByValue([w \in DOMAIN v2v \ {least} |-> v2v[w]])

EnumValues(values) == SortByValue(PadEnumValues(CollectEnumValues(values, <<>>)))

\* is_flaggable (lines 416-429): QFlags is instantiated over this enum
IsFlaggable(input, type_info) ==
  /\ input.qflags_instantiations # <<>>
  /\ \E i \in 1..Len(input.qflags_instantiations[1]) :
       LET x == input.qflags_instantiations[1][i]
       IN  Len(x) = 1 /\ x[1] = CppType(BaseEnum(type_info.name), "None", FALSE)

\* RustGenerator::process_type -> ProcessTypeResult
process_type(map, input, type_info, c_header, seed) ==
  IF type_info.kind = "Enum"
  THEN Ok([main_type |->
             [name |-> last_name(map[type_info.name]),
              kind |-> [kind |-> "CppTypeWrapper",
                        wrapper |-> [kind |-> "Enum",
                                     values |-> EnumValues(type_info.values),
                                     is_flaggable |-> IsFlaggable(input, type_info)],
                        cpp_type_name |-> type_info.name,
                        methods |-> <<>>,
                        traits |-> <<>>]],
           overloading_types |-> <<>>])
  ELSE Try(process_functions(
             map,
             SelectSeq(c_header.methods,
                       LAMBDA m : class_name(m.cpp_method) = <<type_info.name>>),
             ScopeImpl(map[type_info.name]), seed),
           LAMBDA functions_result :
             IF type_info.size = <<>> THEN Panic("unwrap on None")
             ELSE Ok([main_type |->
                        [name |-> last_name(map[type_info.name]),
                         kind |-> [kind |-> "CppTypeWrapper",
                                   wrapper |-> [kind |-> "Struct",
                                                size |-> type_info.size[1]],
                                   cpp_type_name |-> type_info.name,
                                   methods |-> functions_result.methods,
                                   traits |-> functions_result.trait_impls]],
                      overloading_types |-> functions_result.overloading_types]))

(***************************************************************************)
(* Module builder: RustGenerator::generate_module                          *)
(***************************************************************************)
\* The closure check_name (lines 499-519) for one C++ name: whether the
\* entity is a direct member, the child module it asks for, and whether the
\* usize subtraction (and the slice after it) is out of range.
CheckName(map, module_name, name) ==
  IF name \notin DOMAIN map
  THEN [member |-> FALSE, submodule |-> <<>>, panic |-> FALSE]
  ELSE LET rust_name == map[name]
           extra_modules_count == Len(rust_name) - Len(module_name)
       IN  IF extra_modules_count < 0
           THEN [member |-> FALSE, submodule |-> <<>>, panic |-> TRUE]
           ELSE IF /\ extra_modules_count > 0
                   /\ SubSeq(rust_name, 1, Len(module_name)) # module_name
                THEN [member |-> FALSE, submodule |-> <<>>, panic |-> FALSE]
           ELSE [member |-> extra_modules_count = 1,
                 submodule |-> IF extra_modules_count = 2
                               THEN <<rust_name[Len(module_name) + 1]>> ELSE <<>>,
                 panic |-> FALSE]

RustModule(name, types, functions, submodules) ==
  [name |-> name, types |-> types, functions |-> functions, submodules |-> submodules]

\* The calls of check_name that generate_module makes (lines 520-534): one
\* for every type, one for every free function of the header.
ModuleChecks(map, input, c_header, module_name) ==
  Let(SelectSeq(c_header.methods, LAMBDA m : m.cpp_method.class_membership = <<>>),
      LAMBDA free_methods :
        [free_methods |-> free_methods,
         type_checks |-> [i \in 1..Len(input.types) |->
                            CheckName(map, module_name, input.types[i].name)],
         method_checks |-> [i \in 1..Len(free_methods) |->
                              CheckName(map, module_name,
                                        free_methods[i].cpp_method.name)]])

\* direct_submodules after the two loops
DirectSubmodules(checks) ==
  {checks.type_checks[i].submodule[1] :
     i \in {j \in 1..Len(checks.type_checks) : checks.type_checks[j].submodule # <<>>}}
  \cup {checks.method_checks[i].submodule[1] :
          i \in {j \in 1..Len(checks.method_checks) :
                   checks.method_checks[j].submodule # <<>>}}

\* good_methods after the loop over the header's methods (lines 527-533)
GoodMethods(checks) ==
  Flatten([i \in 1..Len(checks.free_methods) |->
             IF checks.method_checks[i].member THEN <<checks.free_methods[i]>>
             ELSE <<>>])

\* Whether a call of check_name leaves the range of usize
Underflow(checks) ==
  \/ \E i \in 1..Len(checks.type_checks) : checks.type_checks[i].panic
  \/ \E i \in 1..Len(checks.method_checks) : checks.method_checks[i].panic

\* The end of generate_module (lines 543-561): the overloading module and
\* the module itself.
AssembleModule(module_name, checks, type_results, children, free_functions_result) ==
  Let(Flatten([i \in 1..Len(type_results) |-> type_results[i].val[1].overloading_types])
      \o free_functions_result.overloading_types,
      LAMBDA rust_overloading_types :
        Ok(<<RustModule(
               last_name(module_name),
               Flatten([i \in 1..Len(type_results) |->
                          IF checks.type_checks[i].member
                          THEN <<type_results[i].val[1].main_type>> ELSE <<>>]),
               free_functions_result.methods,
               Flatten([i \in 1..Len(children) |-> children[i].val[1]])
               \o (IF Len(rust_overloading_types) > 0
                   THEN <<RustModule(S_overloading, rust_overloading_types, <<>>, <<>>)>>
                   ELSE <<>>))>>))

\* RustGenerator::generate_module -> Option<RustModule>, or a panic
RECURSIVE generate_module(_, _, _, _, _)
generate_module(map, input, c_header, module_name, seed) ==
  Let(ModuleChecks(map, input, c_header, module_name), LAMBDA checks :
    IF Underflow(checks) THEN Panic("attempt to subtract with overflow")
    ELSE
      Let([i \in 1..Len(input.types) |->
             IF checks.type_checks[i].member
             THEN process_type(map, input, input.types[i], c_header, seed)
             ELSE Ok([main_type |-> <<>>, overloading_types |-> <<>>])],
          LAMBDA type_results :
            IF FirstBad(type_results) # 0 THEN type_results[FirstBad(type_results)]
            ELSE
              Let(HashOrder(DirectSubmodules(checks), seed), LAMBDA order :
                Let([i \in 1..Len(order) |->
                       generate_module(map, input, c_header,
                                       Append(module_name, order[i]), seed)],
                    LAMBDA children :
                      IF FirstBad(children) # 0 THEN children[FirstBad(children)]
                      ELSE
                        Try(process_functions(map, GoodMethods(checks), ScopeFree, seed),
                            LAMBDA free_functions_result :
                              IF free_functions_result.trait_impls # <<>>
                              THEN Panic("assertion failed")
                              ELSE AssembleModule(module_name, checks, type_results,
                                                  children, free_functions_result))))))

\* RustGenerator::generate_modules_from_header
generate_modules_from_header(map, input, config, c_header, seed) ==
  LET module_name == include_file_to_module_name(c_header.include_file,
                                                 config.remove_qt_prefix)
  IN  IF \E i \in 1..Len(config.module_blacklist) : config.module_blacklist[i] = module_name
      THEN Ok(<<>>)
      ELSE generate_module(map, input, c_header, <<config.crate_name, module_name>>, seed)

(***************************************************************************)
(* FFI table: RustGenerator::ffi                                           *)
(***************************************************************************)
\* The functions of one header: each method's record, the failed ones left out.
FfiFunctionsOf(map, header) ==
  Let([i \in 1..Len(header.methods) |-> ffi_function(map, header.methods[i])],
      LAMBDA rs :
        IF \E i \in 1..Len(rs) : IsPanic(rs[i])
        THEN rs[CHOOSE i \in 1..Len(rs) :
                  IsPanic(rs[i]) /\ \A j \in 1..(i - 1) : ~IsPanic(rs[j])]
        ELSE Ok(Flatten([i \in 1..Len(rs) |-> IF IsOk(rs[i]) THEN rs[i].val ELSE <<>>])))

\* The loop of ffi over the headers from header i on; acc is the HashMap from
\* include file to function list (insert replaces an equal key).
RECURSIVE FfiFrom(_, _, _, _)
FfiFrom(map, headers, i, acc) ==
  IF i > Len(headers) THEN Ok(acc)
  ELSE Try(FfiFunctionsOf(map, headers[i]), LAMBDA functions :
         FfiFrom(map, headers, i + 1, (headers[i].include_file :> functions) @@ acc))

ffi(map, input) == FfiFrom(map, input.cpp_ffi_headers, 1, <<>>)

(***************************************************************************)
(* Name Map: generate_type_map, one loop iteration at a time               *)
(***************************************************************************)
\* The insertion without the contains_key test: HashMap::insert replaces the
\* entry of a name that is already there.
TypeMapInsertAlways(map, name, rust_name) == (name :> rust_name) @@ map

\* if !map.contains_key(name) { map.insert(name, rust_name) }
TypeMapInsert(map, name, rust_name) ==
  IF name \in DOMAIN map THEN map ELSE map @@ (name :> rust_name)

\* A class of unknown size is skipped (lines 153-159).
IsSkippedType(type_info) == type_info.kind = "Class" /\ type_info.size = <<>>

\* The body of the loop over the types (lines 152-164)
TypeMapAddType(map, type_info, config) ==
  IF IsSkippedType(type_info) THEN map
  ELSE TypeMapInsert(map, type_info.name,
                     calculate_rust_name(type_info.name, type_info.include_file,
                                         FALSE, config))

\* The body of the loop over the methods of a header (lines 166-176)
TypeMapAddMethod(map, header, method, config) ==
  IF method.cpp_method.class_membership = <<>>
  THEN TypeMapInsert(map, method.cpp_method.name,
                     calculate_rust_name(method.cpp_method.name, header.include_file,
                                         TRUE, config))
  ELSE map

\* generate_type_map as a whole: the loop over the types from type i on, then
\* the loops over the headers and their methods.
RECURSIVE TypeMapTypes(_, _, _, _)
TypeMapTypes(map, types, i, cfg) ==
  IF i > Len(types) THEN map
  ELSE TypeMapTypes(TypeMapAddType(map, types[i], cfg), types, i + 1, cfg)

RECURSIVE TypeMapMethods(_, _, _, _)
TypeMapMethods(map, header, i, cfg) ==
  IF i > Len(header.methods) THEN map
  ELSE TypeMapMethods(TypeMapAddMethod(map, header, header.methods[i], cfg),
                      header, i + 1, cfg)

RECURSIVE TypeMapHeaders(_, _, _, _)
TypeMapHeaders(map, headers, i, cfg) ==
  IF i > Len(headers) THEN map
  ELSE TypeMapHeaders(TypeMapMethods(map, headers[i], 1, cfg), headers, i + 1, cfg)

generate_type_map(input_data, cfg) ==
  TypeMapHeaders(TypeMapTypes(<<>>, input_data.types, 1, cfg),
                 input_data.cpp_ffi_headers, 1, cfg)

(***************************************************************************)
(* State                                                                   *)
(***************************************************************************)
VARIABLES
  input,                 \* CppAndFfiData: types, cpp_ffi_headers, QFlags instantiations
  config,                \* RustGeneratorConfig
  pc,                    \* where run is
  type_index,            \* generate_type_map: next type
  header_index,          \* next header of the loop in progress
  method_index,          \* generate_type_map: next method of the header
  cpp_to_rust_type_map,  \* the Name Map
  modules,               \* run: the modules pushed so far
  ffi_functions          \* RustGeneratorOutput.ffi_functions

vars == <<input, config, pc, type_index, header_index, method_index,
          cpp_to_rust_type_map, modules, ffi_functions>>

(***************************************************************************)
(* Inputs.  The program is a batch run over data handed to it by the C++   *)
(* front end; the runs explored are those over the inputs below.  Every    *)
(* input keeps the contract of the FFI layer that the source asserts (a    *)
(* receiver and every value or reference passed by address is a pointer in *)
(* the FFI signature; a destructor has an allocation place; a heap or      *)
(* stack allocation place comes with a class returned by value).           *)
(***************************************************************************)
\* Bounds of the explored inputs
MaxTypes == 2
MaxMethods == 2
MaxEnumValues == 2
NumSeeds == 2

N_crate == <<"c","r">>
N_QA == <<"Q","A">>
N_QZ == <<"Q","Z">>
N_E == <<"E">>
N_U == <<"U">>
N_QA_It == <<"Q","A",":",":","I","t">>
N_n_T == <<"n",":",":","T">>
N_n_m_T == <<"n",":",":","m",":",":","T">>
N_QA_g == <<"Q","A",":",":","g">>
N_fn_QA_g == <<"Q","A","_","g">>
N_overloading_T == S_overloading \o <<":",":","T">>
N_f == <<"f">>
N_n_g == <<"n",":",":","g">>
N_at == <<"a","t">>
N_op == <<"o","p">>
N_x == <<"x">>
N_this == <<"t","h","i","s">>
N_out == <<"o","u","t","p","u","t">>
N_type == <<"t","y","p","e">>
N_fn_at == <<"Q","A","_","a","t">>
N_fn_at2 == <<"Q","A","_","a","t","2">>
N_fn_at3 == <<"Q","A","_","a","t","3">>
N_at_static == <<"a","t","_","s","t","a","t","i","c">>
N_fn_at_static == <<"Q","A","_","a","t","_","s","t","a","t","i","c">>
N_fn_static == <<"Q","A","_","a","t","_","s">>
N_fn_byval == <<"Q","A","_","a","t","_","v">>
N_fn_op == <<"Q","A","_","o","p">>
N_fn_unmapped == <<"Q","A","_","a","t","_","z">>
N_fn_template == <<"Q","A","_","a","t","_","t">>
N_fn_indir == <<"Q","A","_","a","t","_","r">>
N_fn_variadic == <<"Q","A","_","a","t","_","v","a">>
N_fn_fnptr == <<"Q","A","_","a","t","_","f","p">>
N_fn_char16 == <<"Q","A","_","a","t","_","c","1","6">>
N_fn_dtor == <<"Q","A","_","d","t","o","r">>
N_fn_delete == <<"Q","A","_","d","e","l","e","t","e">>
N_fn_dtor_bad == <<"Q","A","_","d","t","o","r","_","z">>
N_fn_ctor == <<"Q","A","_","c","t","o","r">>
N_fn_new == <<"Q","A","_","n","e","w">>
N_fn_flags == <<"Q","A","_","a","t","_","f","l">>
N_fn_flags_u == <<"Q","A","_","a","t","_","f","u">>
N_fn_f == <<"f","_","f","r","e","e">>
N_fn_g == <<"g","_","f","r","e","e">>
N_fn_QA == <<"Q","A","_","f","r","e","e">>
N_fn_h == <<"h","_","f","r","e","e">>
N_n_m_h == <<"n",":",":","m",":",":","h">>
H_QA == <<"Q","A",".","h">>
H_QB == <<"Q","B",".","h">>
H_QC == <<"Q","C",".","h">>
M_a == <<"a">>
V_a == <<"v","_","a">>
V_b == <<"v","_","b">>
V_c == <<"v","_","c">>
V_d == <<"v","_","d">>

Seeds == 0..(NumSeeds - 1)

Config(remove_qt_prefix, module_blacklist) ==
  [crate_name |-> N_crate, module_blacklist |-> module_blacklist,
   remove_qt_prefix |-> remove_qt_prefix]

\* cpp_data::CppTypeData
ClassType(name, include_file, size) ==
  [name |-> name, include_file |-> include_file, kind |-> "Class", size |-> size,
   values |-> <<>>]
EnumType(name, include_file, values) ==
  [name |-> name, include_file |-> include_file, kind |-> "Enum", size |-> <<>>,
   values |-> values]
EnumVariant(name, value) == [name |-> name, value |-> value]

\* C++ types used by the inputs
TInt == CppType(BaseBuiltIn("Int"), "None", FALSE)
TUInt == CppType(BaseBuiltIn("UInt"), "None", FALSE)
TDouble == CppType(BaseBuiltIn("Double"), "None", FALSE)
TChar16 == CppType(BaseBuiltIn("Char16"), "None", FALSE)
TInt32 == CppType(BaseSpecific(32, FALSE, TRUE), "None", FALSE)
TClass(name, indirection) == CppType(BaseClass(name, <<>>), indirection, FALSE)
TTemplate(name, indirection) == CppType(BaseClass(name, <<<<TInt>>>>), indirection, FALSE)
TFlags(enum) ==
  CppType(BaseClass(S_QFlags, <<<<CppType(BaseEnum(enum), "None", FALSE)>>>>), "None", FALSE)
TFnPtr(variadic) == CppType(BaseFunctionPointer(CppTypeVoid, <<TInt>>, variadic), "None", FALSE)

Same(t) == CppFfiType(t, t, "NoChange")

\* cpp_ffi_data::CppFfiFunctionArgument
Arg(name, argument_type, meaning) ==
  [name |-> name, argument_type |-> argument_type, meaning |-> meaning]
ThisArg(class) == Arg(N_this, Same(TClass(class, "Ptr")), "This")
ThisByValue(class) ==
  Arg(N_this, CppFfiType(TClass(class, "None"), TClass(class, "Ptr"), "ValueToPointer"),
      "This")
ReturnArg(class) ==
  Arg(N_out, CppFfiType(TClass(class, "None"), TClass(class, "Ptr"), "ValueToPointer"),
      "ReturnValue")

\* cpp_ffi_data::CppAndFfiMethod
Method(name, membership, operator, allocation_place, c_name, arguments, return_type) ==
  [cpp_method |-> [name |-> name, class_membership |-> membership, operator |-> operator],
   allocation_place |-> allocation_place,
   c_name |-> c_name,
   c_signature |-> [arguments |-> arguments, return_type |-> return_type]]

Member(class, kind) == <<[class_name |-> class, kind |-> kind]>>

\* A member function of QA called "at" taking the receiver and one argument
AtMethod(c_name, argument_type) ==
  Method(N_at, Member(N_QA, "Regular"), FALSE, "NotApplicable", c_name,
         <<ThisArg(N_QA), Arg(N_x, argument_type, "Argument")>>, CppFfiTypeVoid)

M_at_int == AtMethod(N_fn_at, Same(TInt))
M_at_double == AtMethod(N_fn_at2, Same(TDouble))
M_at_int32 == AtMethod(N_fn_at3, Same(TInt32))
M_at_static ==
  Method(N_at, Member(N_QA, "Regular"), FALSE, "NotApplicable", N_fn_static,
         <<Arg(N_type, Same(TInt), "Argument")>>, CppFfiTypeVoid)
M_at_static_named ==
  Method(N_at_static, Member(N_QA, "Regular"), FALSE, "NotApplicable", N_fn_at_static,
         <<ThisArg(N_QA), Arg(N_x, Same(TInt), "Argument")>>, CppFfiTypeVoid)
M_at_by_value ==
  Method(N_at, Member(N_QA, "Regular"), FALSE, "NotApplicable", N_fn_byval,
         <<ThisByValue(N_QA), Arg(N_x, Same(TInt), "Argument")>>, CppFfiTypeVoid)
M_operator ==
  Method(N_op, Member(N_QA, "Regular"), TRUE, "NotApplicable", N_fn_op,
         <<ThisArg(N_QA), Arg(N_x, Same(TInt), "Argument")>>, CppFfiTypeVoid)
M_at_unmapped == AtMethod(N_fn_unmapped, Same(TClass(N_QZ, "Ptr")))
M_at_template == AtMethod(N_fn_template, Same(TTemplate(N_QA, "Ptr")))
M_at_indirection == AtMethod(N_fn_indir, Same(TClass(N_QA, "PtrRef")))
M_at_variadic == AtMethod(N_fn_variadic, Same(TFnPtr(TRUE)))
M_at_fn_pointer == AtMethod(N_fn_fnptr, Same(TFnPtr(FALSE)))
M_at_char16 == AtMethod(N_fn_char16, Same(TChar16))
M_at_flags == AtMethod(N_fn_flags, CppFfiType(TFlags(N_E), TUInt, "QFlagsToUInt"))
M_at_flags_unmapped == AtMethod(N_fn_flags_u, CppFfiType(TFlags(N_U), TUInt, "QFlagsToUInt"))
M_destructor_stack ==
  Method(N_QA, Member(N_QA, "Destructor"), FALSE, "Stack", N_fn_dtor,
         <<ThisArg(N_QA)>>, CppFfiTypeVoid)
M_destructor_heap ==
  Method(N_QA, Member(N_QA, "Destructor"), FALSE, "Heap", N_fn_delete,
         <<ThisArg(N_QA)>>, CppFfiTypeVoid)
M_destructor_unmapped ==
  Method(N_QA, Member(N_QA, "Destructor"), FALSE, "Stack", N_fn_dtor_bad,
         <<ThisArg(N_QA), Arg(N_x, Same(TClass(N_QZ, "Ptr")), "Argument")>>, CppFfiTypeVoid)
M_constructor_stack ==
  Method(N_QA, Member(N_QA, "Constructor"), FALSE, "Stack", N_fn_ctor,
         <<Arg(N_x, Same(TInt), "Argument"), ReturnArg(N_QA)>>, CppFfiTypeVoid)
M_constructor_heap ==
  Method(N_QA, Member(N_QA, "Constructor"), FALSE, "Heap", N_fn_new,
         <<Arg(N_x, Same(TInt), "Argument")>>,
         CppFfiType(TClass(N_QA, "None"), TClass(N_QA, "Ptr"), "ValueToPointer"))

\* Free functions
FreeFunction(name, c_name, argument_type) ==
  Method(name, <<>>, FALSE, "NotApplicable", c_name,
         <<Arg(N_x, argument_type, "Argument")>>, CppFfiTypeVoid)

F_f == FreeFunction(N_f, N_fn_f, Same(TInt))
F_f_double == FreeFunction(N_f, N_fn_g, Same(TDouble))
F_QA == FreeFunction(N_QA, N_fn_QA, Same(TInt))
F_n_g == FreeFunction(N_n_g, N_fn_g, Same(TInt))
F_n_m_h == FreeFunction(N_n_m_h, N_fn_h, Same(TInt))
F_QA_g == FreeFunction(N_QA_g, N_fn_QA_g, Same(TInt))
F_unmapped == FreeFunction(N_n_g, N_fn_unmapped, Same(TClass(N_QZ, "Ptr")))

\* cpp_ffi_generator::CppFfiHeaderData
Header(include_file, methods) == [include_file |-> include_file, methods |-> methods]

Input(types, headers) ==
  [types |-> types, cpp_ffi_headers |-> headers,
   qflags_instantiations |-> <<<<<<CppType(BaseEnum(N_E), "None", FALSE)>>>>>>]

\* The strictly increasing lists of at most n indices out of 1..len
RECURSIVE Increasing(_, _)
Increasing(len, n) ==
  IF n = 0 THEN {<<>>}
  ELSE LET shorter == Increasing(len, n - 1)
       IN  shorter \cup
           UNION {{Append(q, j) : j \in {k \in 1..len : Len(q) = 0 \/ q[Len(q)] < k}} :
                    q \in shorter}

\* The lists of at most n elements of pool, in the pool's order or reversed
Picks(pool, n) ==
  LET Forward(q) == [k \in 1..Len(q) |-> pool[q[k]]]
      Backward(q) == [k \in 1..Len(q) |-> pool[q[Len(q) + 1 - k]]]
  IN  {Forward(q) : q \in Increasing(Len(pool), n)}
      \cup {Backward(q) : q \in Increasing(Len(pool), n)}

\* All lists of at most n elements of the set S
RECURSIVE SeqsUpTo(_, _)
SeqsUpTo(S, n) ==
  IF n = 0 THEN {<<>>}
  ELSE LET shorter == SeqsUpTo(S, n - 1)
       IN  shorter \cup {Append(q, x) : q \in shorter, x \in S}

T_QA == ClassType(N_QA, H_QA, <<8>>)
T_QA_unsized == ClassType(N_QA, H_QA, <<>>)
T_QA_in_QB == ClassType(N_QA, H_QB, <<4>>)
T_QA_enum == EnumType(N_QA, H_QC, <<EnumVariant(V_a, 0), EnumVariant(V_c, 1)>>)
T_E == EnumType(N_E, H_QA, <<EnumVariant(V_a, 0), EnumVariant(V_c, 1)>>)
T_QA_It == ClassType(N_QA_It, H_QB, <<8>>)
T_n_T == ClassType(N_n_T, H_QA, <<8>>)
T_n_m_T == ClassType(N_n_m_T, H_QA, <<8>>)
T_QA_It_in_QA == ClassType(N_QA_It, H_QA, <<8>>)
T_overloading_T == ClassType(N_overloading_T, H_QA, <<8>>)

\* Name Map inputs: the same C++ name declared more than once
NameMapInputs ==
  {[input |-> Input(types, <<Header(H_QA, fa), Header(H_QB, fb)>>),
    config |-> Config(TRUE, <<>>)] :
     types \in SeqsUpTo({T_QA, T_QA_unsized, T_QA_in_QB, T_QA_enum}, MaxTypes),
     fa \in {<<>>, <<F_f>>, <<F_QA>>},
     fb \in {<<>>, <<F_f, F_QA>>}}

\* Overload inputs: class QA with some of its member functions
MethodPool ==
  <<M_at_int, M_at_double, M_at_int32, M_at_static, M_at_by_value, M_operator,
    M_at_unmapped, M_at_template, M_at_indirection, M_at_variadic, M_at_flags,
    M_destructor_stack, M_destructor_heap, M_destructor_unmapped,
    M_constructor_stack, M_constructor_heap>>

\* Further argument types, each in a member function of its own
ArgumentTypePool == {M_at_fn_pointer, M_at_char16, M_at_flags_unmapped}

MethodInputs ==
  {[input |-> Input(<<T_QA, T_E>>, <<Header(H_QA, methods)>>),
    config |-> Config(TRUE, <<>>)] :
     methods \in Picks(MethodPool, MaxMethods) \cup {<<m>> : m \in ArgumentTypePool}}

\* Caption inputs: a member function and a static function named at, and a
\* member function whose own name is at followed by the caption of a
\* static function
CaptionInputs ==
  {[input |-> Input(<<T_QA, T_E>>, <<Header(H_QA, methods)>>),
    config |-> Config(TRUE, <<>>)] :
     methods \in {<<M_at_int, M_at_static, M_at_static_named>>,
                  <<M_at_static_named, M_at_static, M_at_int>>,
                  <<M_at_static, M_at_static_named>>}}

\* Module inputs: entities at several namespace depths, an empty header, a
\* blacklisted module
ModuleInputs ==
  {[input |-> Input(types, <<Header(H_QA, fs), Header(H_QC, <<>>)>>),
    config |-> Config(remove, blacklist)] :
     types \in Picks(<<T_QA, T_n_T, T_n_m_T, T_QA_It, T_overloading_T>>, MaxTypes),
     fs \in {<<>>, <<F_f, F_f_double>>, <<F_n_g>>, <<F_n_m_h>>, <<F_unmapped, F_f>>},
     remove \in BOOLEAN,
     blacklist \in {<<>>, <<M_a>>}}

\* Enum inputs: one enum with a list of variants
EnumInputs ==
  {[input |-> Input(<<EnumType(N_E, H_QA, values)>>, <<Header(H_QA, <<>>)>>),
    config |-> Config(TRUE, <<>>)] :
     values \in SeqsUpTo({EnumVariant(V_a, 0), EnumVariant(V_b, 0), EnumVariant(V_c, 1),
                          EnumVariant(V_d, 5)}, MaxEnumValues)}

\* Collapse inputs: names in the namespace QA, declared in QA.h and in QB.h
CollapseInputs ==
  {[input |-> Input(types, <<Header(H_QA, fa), Header(H_QB, fb)>>),
    config |-> Config(remove, <<>>)] :
     types \in Picks(<<T_QA_It, T_QA_It_in_QA, T_n_T>>, MaxTypes),
     fa \in {<<>>, <<F_QA_g>>},
     fb \in {<<>>, <<F_QA_g>>},
     remove \in BOOLEAN}

\* Identifier inputs: one class or one free function named by an identifier
IdentifierPool ==
  { <<"O","n","e","T","w","o">>,
    <<"Q","D","i","r","I","t","e","r","a","t","o","r">>,
    <<"Q","Q","D","i","r">>,
    <<"Q","t","Q","A">>,
    <<"Q">>,
    <<"Q","t">>,
    <<"q","_","x">>,
    <<"m","y","F","u","n","c","1">>,
    <<"Q","T","y","p","e">>,
    N_type }

IdentifierInputs ==
  {[input |-> Input(<<ClassType(id, H_QA, <<8>>)>>, <<Header(H_QA, <<>>)>>),
    config |-> Config(remove, <<>>)] : id \in IdentifierPool, remove \in BOOLEAN}
  \cup
  {[input |-> Input(<<>>, <<Header(H_QA, <<FreeFunction(id, N_fn_f, Same(TInt))>>)>>),
    config |-> Config(remove, <<>>)] : id \in IdentifierPool, remove \in BOOLEAN}

Inputs ==
  NameMapInputs \cup MethodInputs \cup ModuleInputs \cup EnumInputs \cup CollapseInputs
  \cup IdentifierInputs \cup CaptionInputs

(***************************************************************************)
(* run                                                                     *)
(***************************************************************************)
Init ==
  /\ \E i \in Inputs : input = i.input /\ config = i.config
  /\ pc = "type_map_types"
  /\ type_index = 1
  /\ header_index = 1
  /\ method_index = 1
  /\ cpp_to_rust_type_map = <<>>
  /\ modules = <<>>
  /\ ffi_functions = <<>>

\* generate_type_map: one iteration of the loop over the types
TypeMapType ==
  /\ pc = "type_map_types"
  /\ type_index <= Len(input.types)
  /\ cpp_to_rust_type_map' =
       TypeMapAddType(cpp_to_rust_type_map, input.types[type_index], config)
  /\ type_index' = type_index + 1
  /\ UNCHANGED <<input, config, pc, header_index, method_index, modules, ffi_functions>>

\* generate_type_map: the loop over the types ends
TypeMapTypesDone ==
  /\ pc = "type_map_types"
  /\ type_index > Len(input.types)
  /\ pc' = "type_map_functions"
  /\ header_index' = 1
  /\ method_index' = 1
  /\ UNCHANGED <<input, config, type_index, cpp_to_rust_type_map, modules, ffi_functions>>

\* generate_type_map: one iteration of the loop over the methods of a header
TypeMapMethod ==
  /\ pc = "type_map_functions"
  /\ header_index <= Len(input.cpp_ffi_headers)
  /\ method_index <= Len(input.cpp_ffi_headers[header_index].methods)
  /\ cpp_to_rust_type_map' =
       TypeMapAddMethod(cpp_to_rust_type_map, input.cpp_ffi_headers[header_index],
                        input.cpp_ffi_headers[header_index].methods[method_index], config)
  /\ method_index' = method_index + 1
  /\ UNCHANGED <<input, config, pc, type_index, header_index, modules, ffi_functions>>

\* generate_type_map: the methods of a header are done
TypeMapNextHeader ==
  /\ pc = "type_map_functions"
  /\ header_index <= Len(input.cpp_ffi_headers)
  /\ method_index > Len(input.cpp_ffi_headers[header_index].methods)
  /\ header_index' = header_index + 1
  /\ method_index' = 1
  /\ UNCHANGED <<input, config, pc, type_index, cpp_to_rust_type_map, modules,
                 ffi_functions>>

\* generate_type_map returns; run builds the generator and starts its loop
TypeMapDone ==
  /\ pc = "type_map_functions"
  /\ header_index > Len(input.cpp_ffi_headers)
  /\ pc' = "modules"
  /\ header_index' = 1
  /\ UNCHANGED <<input, config, type_index, method_index, cpp_to_rust_type_map, modules,
                 ffi_functions>>

\* run: one iteration of the loop over the headers (lines 104-108)
GenerateModulesFromHeader ==
  /\ pc = "modules"
  /\ header_index <= Len(input.cpp_ffi_headers)
  /\ \E seed \in Seeds :
       LET r == generate_modules_from_header(cpp_to_rust_type_map, input, config,
                                             input.cpp_ffi_headers[header_index], seed)
       IN  IF IsPanic(r)
           THEN pc' = "panicked" /\ UNCHANGED <<modules, header_index>>
           ELSE /\ modules' = modules \o r.val[1]
                /\ header_index' = header_index + 1
                /\ pc' = pc
  /\ UNCHANGED <<input, config, type_index, method_index, cpp_to_rust_type_map,
                 ffi_functions>>

\* run: generator.ffi() and the output (lines 109-112)
Ffi ==
  /\ pc = "modules"
  /\ header_index > Len(input.cpp_ffi_headers)
  /\ LET r == ffi(cpp_to_rust_type_map, input)
     IN  IF IsPanic(r)
         THEN pc' = "panicked" /\ UNCHANGED ffi_functions
         ELSE pc' = "done" /\ ffi_functions' = r.val[1]
  /\ UNCHANGED <<input, config, type_index, header_index, method_index,
                 cpp_to_rust_type_map, modules>>

Next ==
  \/ TypeMapType
  \/ TypeMapTypesDone
  \/ TypeMapMethod
  \/ TypeMapNextHeader
  \/ TypeMapDone
  \/ GenerateModulesFromHeader
  \/ Ffi

Spec == Init /\ [][Next]_vars

(***************************************************************************)
(* Reading the run: the calls of process_functions that the run can make   *)
(* and the output it has built                                             *)
(***************************************************************************)
\* generate_type_map has returned
MapBuilt == pc \in {"modules", "done", "panicked"}

\* run has built the generator and is about to enter its loop over the
\* headers (line 103): the Name Map is the one every later stage reads
GeneratorBuilt == pc = "modules" /\ header_index = 1

HeaderIndices == 1..Len(input.cpp_ffi_headers)

\* The classes that own a scope: t is an index of input.types; 0 stands for
\* the scope of the free functions.
ScopeIndices ==
  {0} \cup {t \in 1..Len(input.types) :
              /\ input.types[t].kind = "Class"
              /\ input.types[t].name \in DOMAIN cpp_to_rust_type_map}

CallScope(t) ==
  IF t = 0 THEN ScopeFree ELSE ScopeImpl(cpp_to_rust_type_map[input.types[t].name])

\* The methods of header h that belong to the scope t
CallMethods(h, t) ==
  IF t = 0
  THEN SelectSeq(input.cpp_ffi_headers[h].methods,
                 LAMBDA m : m.cpp_method.class_membership = <<>>)
  ELSE SelectSeq(input.cpp_ffi_headers[h].methods,
                 LAMBDA m : class_name(m.cpp_method) = <<input.types[t].name>>)

\* generate_function on a method of scope t
Synth(m, t) == generate_function(cpp_to_rust_type_map, m, CallScope(t))

\* process_functions on the methods of header h in scope t
Processed(h, t, seed) ==
  process_functions(cpp_to_rust_type_map, CallMethods(h, t), CallScope(t), seed)

\* The methods of a call that are not destructors and for which
\* generate_function succeeds, and what it returns for them
Synthesized(h, t) ==
  Let(SelectSeq(CallMethods(h, t),
                LAMBDA m : ~is_destructor(m.cpp_method) /\ IsOk(Synth(m, t))),
      LAMBDA ms : [i \in 1..Len(ms) |-> Synth(ms[i], t).val[1]])

WithName(rust_methods, method_name) ==
  SelectSeq(rust_methods, LAMBDA x : last_name(x.name) = method_name)

NamesOf(rust_methods) == {last_name(rust_methods[i].name) : i \in 1..Len(rust_methods)}

\* The C name of the C++ method a single-shape callable wraps
CNameOf(rust_method) == rust_method.arguments.cpp_method.c_name

\* The modules of the output with their paths, as a list
RECURSIVE ModuleList(_, _)
ModuleList(ms, parent) ==
  Flatten([i \in 1..Len(ms) |->
             <<[path |-> Append(parent, ms[i].name), module |-> ms[i]]>>
             \o ModuleList(ms[i].submodules, Append(parent, ms[i].name))])

OutputModules == ModuleList(modules, <<config.crate_name>>)

\* The callables of a type declaration (its methods and those of its trait
\* implementations) and of a module
DeclCallables(decl) ==
  IF decl.kind.kind = "CppTypeWrapper"
  THEN decl.kind.methods
       \o Flatten([i \in 1..Len(decl.kind.traits) |-> decl.kind.traits[i].methods])
  ELSE <<>>

ModuleCallables(module) ==
  module.functions
  \o Flatten([i \in 1..Len(module.types) |-> DeclCallables(module.types[i])])

\* The argument variants of a dispatch trait declaration
DeclVariants(decl) ==
  IF decl.kind.kind = "MethodParametersTrait" THEN decl.kind.impls ELSE <<>>

\* The C names of the C++ methods that have a callable, or a variant of a
\* dispatch trait, in a list of modules with their paths
ApiCNames(module_list) ==
  UNION {{CNameOf(c) : c \in {x \in Range(ModuleCallables(module_list[i].module)) :
                                 x.arguments.kind = "SingleVariant"}}
         \cup UNION {{v.cpp_method.c_name : v \in Range(DeclVariants(d))} :
                       d \in Range(module_list[i].module.types)} :
           i \in 1..Len(module_list)}

(***************************************************************************)
(* C1                                                                      *)
(***************************************************************************)
\* The methods of a call without those for which generate_function returns
\* an error
WithoutFailed(h, t) ==
  SelectSeq(CallMethods(h, t), LAMBDA m : ~IsErr(Synth(m, t)))

\* A class of unknown size whose name is in the Name Map (process_type
\* unwraps its size)
UnsizedMapped ==
  \E t \in 1..Len(input.types) :
    /\ IsSkippedType(input.types[t])
    /\ input.types[t].name \in DOMAIN cpp_to_rust_type_map

\* A path deep enough for generate_module to be entered with a module path
\* that is longer than another mapped path
DeepName ==
  \E n1, n2 \in DOMAIN cpp_to_rust_type_map :
    /\ Len(cpp_to_rust_type_map[n1]) >= 5
    /\ Len(cpp_to_rust_type_map[n2]) + 2 <= Len(cpp_to_rust_type_map[n1])

\* C1: a method for which generate_function returns an error is only
\* dropped from its scope's result: process_functions never returns the
\* error, and returns exactly what it returns for the same methods without
\* the failed ones; and the run is not ended by such a method (it panics
\* only on an input with a mapped class of unknown size or a name nested
\* three namespaces deep).
C1_FailedMethodOnlyDropped ==
  /\ GeneratorBuilt =>
       \A h \in HeaderIndices, t \in ScopeIndices, seed \in Seeds :
         /\ ~IsErr(Processed(h, t, seed))
         /\ Processed(h, t, seed) =
              process_functions(cpp_to_rust_type_map, WithoutFailed(h, t),
                                CallScope(t), seed)
  /\ pc = "panicked" => UnsizedMapped \/ DeepName

\* The run is done on an input with a method that failed and another method
\* of the same scope that is in the output.
C1_Witness ==
  /\ pc = "done"
  /\ \E h \in HeaderIndices, t \in ScopeIndices :
       \E i, j \in 1..Len(CallMethods(h, t)) :
         /\ IsErr(Synth(CallMethods(h, t)[i], t))
         /\ IsOk(Synth(CallMethods(h, t)[j], t))
         /\ CallMethods(h, t)[j].c_name \in ApiCNames(OutputModules)

(***************************************************************************)
(* C2                                                                      *)
(***************************************************************************)
\* The entities generate_type_map goes through, in its order: the types,
\* then the free functions header by header.
TypeEntities ==
  [i \in 1..Len(input.types) |->
     [name |-> input.types[i].name,
      include_file |-> input.types[i].include_file,
      is_function |-> FALSE,
      skipped |-> IsSkippedType(input.types[i])]]

FunctionEntities(h) ==
  Let(SelectSeq(input.cpp_ffi_headers[h].methods,
                LAMBDA m : m.cpp_method.class_membership = <<>>),
      LAMBDA fs : [i \in 1..Len(fs) |->
                     [name |-> fs[i].cpp_method.name,
                      include_file |-> input.cpp_ffi_headers[h].include_file,
                      is_function |-> TRUE,
                      skipped |-> FALSE]])

\* The free functions among the first n methods of header h
FunctionEntitiesUpTo(h, n) ==
  Let(SelectSeq(SubSeq(input.cpp_ffi_headers[h].methods, 1, n),
                LAMBDA m : m.cpp_method.class_membership = <<>>),
      LAMBDA fs : [i \in 1..Len(fs) |->
                     [name |-> fs[i].cpp_method.name,
                      include_file |-> input.cpp_ffi_headers[h].include_file,
                      is_function |-> TRUE,
                      skipped |-> FALSE]])

\* The entities the pass has gone through so far
ProcessedEntities ==
  CASE pc = "type_map_types" -> SubSeq(TypeEntities, 1, type_index - 1)
    [] pc = "type_map_functions" ->
         TypeEntities
         \o Flatten([h \in 1..(header_index - 1) |-> FunctionEntities(h)])
         \o (IF header_index <= Len(input.cpp_ffi_headers)
             THEN FunctionEntitiesUpTo(header_index, method_index - 1)
             ELSE <<>>)
    [] OTHER ->
         TypeEntities
         \o Flatten([h \in 1..Len(input.cpp_ffi_headers) |-> FunctionEntities(h)])

EntityPath(e) == calculate_rust_name(e.name, e.include_file, e.is_function, config)

\* The first entity of a list that has the name and satisfies Keep
FirstNamed(entities, name, Keep(_)) ==
  entities[CHOOSE i \in 1..Len(entities) :
             /\ entities[i].name = name /\ Keep(entities[i])
             /\ \A j \in 1..(i - 1) : ~(entities[j].name = name /\ Keep(entities[j]))]

CaptionedName(method_name, kind) == method_name \o <<"_">> \o caption(kind)

\* The callables of a result that wrap, as single-shape callables, the C++
\* method with a C name
SingleCallables(result, c_name) ==
  SelectSeq(result.methods,
            LAMBDA x : x.arguments.kind = "SingleVariant" /\ CNameOf(x) = c_name)

\* The dispatch traits of a result that have a variant for the C++ method
\* with a C name
TraitsWith(result, c_name) ==
  SelectSeq(result.overloading_types,
            LAMBDA d : \E i \in 1..Len(DeclVariants(d)) :
                         DeclVariants(d)[i].cpp_method.c_name = c_name)

\* C3: when exactly two synthesized methods of a scope have a final name and
\* their receiver kinds differ, process_functions emits for each a
\* single-shape callable named with the caption of its receiver kind, no
\* callable under the bare name, and no dispatch trait for either.
C3_ReceiverKindsCaptioned ==
  GeneratorBuilt =>
    \A h \in HeaderIndices, t \in ScopeIndices, seed \in Seeds :
      Let(Synthesized(h, t), LAMBDA all :
        \A method_name \in NamesOf(all) :
          Let(WithName(all, method_name), LAMBDA s :
            (Len(s) = 2 /\ self_arg_kind(s[1]) # self_arg_kind(s[2])) =>
              Let(Processed(h, t, seed), LAMBDA r :
                /\ IsOk(r)
                /\ \A k \in 1..2 :
                     /\ Len(SingleCallables(r.val[1], CNameOf(s[k]))) = 1
                     /\ last_name(SingleCallables(r.val[1], CNameOf(s[k]))[1].name) =
                          CaptionedName(method_name, self_arg_kind(s[k]))
                     /\ Len(TraitsWith(r.val[1], CNameOf(s[k]))) = 0
                /\ \A i \in 1..Len(r.val[1].methods) :
                     last_name(r.val[1].methods[i].name) # method_name)))

\* The run is done and a class of the output has two single-shape callables
\* of one C++ name, captioned by different receiver kinds, and its module
\* has no dispatch trait.
C3_Witness ==
  /\ pc = "done"
  /\ \E e \in Range(OutputModules) :
       /\ e.module.submodules = <<>>
       /\ \E d \in Range(e.module.types) :
            /\ d.kind.kind = "CppTypeWrapper"
            /\ \E x, y \in Range(d.kind.methods) :
                 /\ x.arguments.kind = "SingleVariant"
                 /\ y.arguments.kind = "SingleVariant"
                 /\ x.arguments.cpp_method.cpp_method.name =
                      y.arguments.cpp_method.cpp_method.name
                 /\ self_arg_kind(x) # self_arg_kind(y)
                 /\ last_name(x.name) =
                      CaptionedName(string_to_snake_case(
                                      x.arguments.cpp_method.cpp_method.name),
                                    self_arg_kind(x))
                 /\ last_name(y.name) =
                      CaptionedName(string_to_snake_case(
                                      y.arguments.cpp_method.cpp_method.name),
                                    self_arg_kind(y))

(***************************************************************************)
(* C4                                                                      *)
(***************************************************************************)
\* The API types of the arguments of a callable other than the receiver,
\* libc aliases resolved as the duplicate filter resolves them
NonReceiverTypes(rust_method) ==
  Let(SelectSeq(rust_method.arguments.arguments, LAMBDA a : a.name # S_self),
      LAMBDA args : [i \in 1..Len(args) |->
                       dealias_libc(args[i].argument_type.rust_api_type)])

DestructorsOf(h, t, place) ==
  SelectSeq(CallMethods(h, t),
            LAMBDA m : is_destructor(m.cpp_method) /\ m.allocation_place = place)

\* The Drop implementations of a result
DropImpls(result) ==
  SelectSeq(result.trait_impls, LAMBDA x : x.trait_name.kind = "Drop")

\* The Drop implementations for the owning type that hold exactly one
\* method, named drop, wrapping the destructor
DropImplsOf(result, scope, destructor) ==
  SelectSeq(DropImpls(result),
            LAMBDA x : /\ x.target_type = scope.type_name
                       /\ Len(x.methods) = 1
                       /\ x.methods[1].name = <<S_drop>>
                       /\ CNameOf(x.methods[1]) = destructor.c_name)

\* C5 as amended: for every destructor with allocation place Stack processed
\* in a class scope, the result contains exactly one Drop implementation
\* for the owning type, holding exactly one method named drop, when
\* generate_function succeeds for the destructor, and none when it returns
\* an error; there is no other Drop implementation.
C5_StackDestructorDrop ==
  GeneratorBuilt =>
    \A h \in HeaderIndices, t \in ScopeIndices \ {0}, seed \in Seeds :
      Let(Processed(h, t, seed), LAMBDA r :
        IsOk(r) =>
          Let(DestructorsOf(h, t, "Stack"), LAMBDA ds :
            /\ \A i \in 1..Len(ds) :
                 Len(DropImplsOf(r.val[1], CallScope(t), ds[i])) =
                   (IF IsOk(Synth(ds[i], t)) THEN 1 ELSE 0)
            /\ Len(DropImpls(r.val[1])) =
                 Cardinality({i \in 1..Len(ds) : IsOk(Synth(ds[i], t))})))

\* The run is done and a class of the output has a Drop implementation with
\* the one method drop wrapping a destructor with allocation place Stack.
C5_Witness ==
  /\ pc = "done"
  /\ \E e \in Range(OutputModules) :
       \E d \in Range(e.module.types) :
         /\ d.kind.kind = "CppTypeWrapper"
         /\ \E x \in Range(d.kind.traits) :
              /\ x.trait_name.kind = "Drop"
              /\ Len(x.methods) = 1
              /\ x.methods[1].name = <<S_drop>>
              /\ is_destructor(x.methods[1].arguments.cpp_method.cpp_method)
              /\ x.methods[1].arguments.cpp_method.allocation_place = "Stack"

\* C5 as stated: every destructor with allocation place Stack processed in a
\* class scope has exactly one Drop implementation with the one method drop
\* in the result, whatever the types of its arguments.
C5_AlwaysOneDrop ==
  GeneratorBuilt =>
    \A h \in HeaderIndices, t \in ScopeIndices \ {0}, seed \in Seeds :
      Let(Processed(h, t, seed), LAMBDA r :
        IsOk(r) =>
          \A i \in 1..Len(DestructorsOf(h, t, "Stack")) :
            Len(DropImplsOf(r.val[1], CallScope(t), DestructorsOf(h, t, "Stack")[i])) = 1)

(***************************************************************************)
(* C6                                                                      *)
(***************************************************************************)
\* The CppDeletable implementations of a result that name a deleter
DeletableImpls(result, deleter_name) ==
  SelectSeq(result.trait_impls,
            LAMBDA x : /\ x.trait_name.kind = "CppDeletable"
                       /\ x.trait_name.deleter_name = deleter_name)

\* C6: for every destructor with allocation place Heap processed in a class
\* scope, the result has exactly one CppDeletable implementation naming the
\* destructor's C function, for the owning type and with no method; no
\* callable, no method of a trait implementation and no variant of a
\* dispatch trait wraps the destructor.
C6_HeapDestructorDeletable ==
  GeneratorBuilt =>
    \A h \in HeaderIndices, t \in ScopeIndices \ {0}, seed \in Seeds :
      Let(Processed(h, t, seed), LAMBDA r :
        IsOk(r) =>
          \A i \in 1..Len(DestructorsOf(h, t, "Heap")) :
            Let(DestructorsOf(h, t, "Heap")[i].c_name, LAMBDA c_name :
              /\ Len(DeletableImpls(r.val[1], c_name)) = 1
              /\ DeletableImpls(r.val[1], c_name)[1].target_type = CallScope(t).type_name
              /\ DeletableImpls(r.val[1], c_name)[1].methods = <<>>
              /\ Len(SingleCallables(r.val[1], c_name)) = 0
              /\ Len(TraitsWith(r.val[1], c_name)) = 0
              /\ \A j \in 1..Len(r.val[1].trait_impls) :
                   \A k \in 1..Len(r.val[1].trait_impls[j].methods) :
                     CNameOf(r.val[1].trait_impls[j].methods[k]) # c_name))

\* The run is done on a class with a destructor with allocation place Heap:
\* the class of the output has the CppDeletable implementation naming the
\* destructor's C function and no callable wrapping it.
C6_Witness ==
  /\ pc = "done"
  /\ \E h \in HeaderIndices, t \in ScopeIndices \ {0} :
       /\ Len(DestructorsOf(h, t, "Heap")) > 0
       /\ DestructorsOf(h, t, "Heap")[1].c_name \notin ApiCNames(OutputModules)
       /\ \E e \in Range(OutputModules) :
            \E d \in Range(e.module.types) :
              /\ d.kind.kind = "CppTypeWrapper"
              /\ d.kind.cpp_type_name = input.types[t].name
              /\ \E x \in Range(d.kind.traits) :
                   /\ x.trait_name.kind = "CppDeletable"
                   /\ x.trait_name.deleter_name = DestructorsOf(h, t, "Heap")[1].c_name
                   /\ x.methods = <<>>

(***************************************************************************)
(* C7                                                                      *)
(***************************************************************************)
\* The enum declarations of the output
EnumDecls ==
  {d \in UNION {Range(e.module.types) : e \in Range(OutputModules)} :
     d.kind.kind = "CppTypeWrapper" /\ d.kind.wrapper.kind = "Enum"}

\* The enums of the input with a C++ name
InputEnums(name) ==
  {t \in Range(input.types) : t.kind = "Enum" /\ t.name = name}

\* The numeric values of a list of variants
ValuesOf(variants) == {variants[i].value : i \in 1..Len(variants)}

\* The first variant of a list that has a value
FirstWithValue(variants, value) ==
  variants[CHOOSE i \in 1..Len(variants) :
             /\ variants[i].value = value
             /\ \A j \in 1..(i - 1) : variants[j].value # value]

\* What the claim asks of the emitted values of an enum with given variants
EnumValuesAsClaimed(variants, emitted) ==
  /\ \A i, j \in 1..Len(emitted) : i # j => emitted[i].value # emitted[j].value
  /\ \A v \in ValuesOf(variants) :
       \E i \in 1..Len(emitted) :
         emitted[i] = [name |-> string_to_class_case(FirstWithValue(variants, v).name),
                       value |-> v]
  /\ Len(emitted) # 1
  /\ IF Cardinality(ValuesOf(variants)) = 1
     THEN /\ Len(emitted) = 2
          /\ \E i \in 1..2 :
               /\ emitted[i].value \notin ValuesOf(variants)
               /\ emitted[i].value = (IF 0 \in ValuesOf(variants) THEN 1 ELSE 0)
     ELSE Len(emitted) = Cardinality(ValuesOf(variants))

\* C7: every enum of the output has pairwise distinct values, each value of
\* the input carried once under the class-cased name of the first input
\* variant that had it; an enum with one distinct value has exactly one
\* more, synthetic, variant, of value 1 when the real value is 0 and of
\* value 0 otherwise; an enum with two or more distinct values has no
\* synthetic variant; no emitted enum has a single value.
C7_EnumValues ==
  \A d \in EnumDecls :
    \E t \in InputEnums(d.kind.cpp_type_name) :
      EnumValuesAsClaimed(t.values, d.kind.wrapper.values)

\* The run is done on an enum whose variants all share one value, and more
\* than one variant has it: the emitted enum has the first variant and the
\* synthetic one.
C7_Witness ==
  /\ pc = "done"
  /\ \E d \in EnumDecls :
       \E t \in InputEnums(d.kind.cpp_type_name) :
         /\ Len(t.values) >= 2
         /\ Cardinality(ValuesOf(t.values)) = 1
         /\ Len(d.kind.wrapper.values) = 2
         /\ \E i \in 1..2 : d.kind.wrapper.values[i].name = S_Invalid

(***************************************************************************)
(* C8                                                                      *)
(***************************************************************************)
\* The records of the FFI table for a header that carry a C name
FfiRecords(header, c_name) ==
  IF header.include_file \in DOMAIN ffi_functions
  THEN SelectSeq(ffi_functions[header.include_file], LAMBDA f : f.name = c_name)
  ELSE <<>>

\* C8 as amended: the FFI table holds a record for exactly the functions for
\* which ffi_function succeeds, whatever generate_function returns for
\* them; and a function for which ffi_function fails has no API callable:
\* generate_function does not succeed for it and its C name is nowhere in
\* the module trees.
C8_FfiFailureFailsApi ==
  pc = "done" =>
    \A h \in HeaderIndices :
      \A m \in Range(input.cpp_ffi_headers[h].methods) :
        Let(ffi_function(cpp_to_rust_type_map, m), LAMBDA f :
          /\ IsOk(f) => FfiRecords(input.cpp_ffi_headers[h], m.c_name) = f.val
          /\ ~IsOk(f) =>
               /\ FfiRecords(input.cpp_ffi_headers[h], m.c_name) = <<>>
               /\ m.c_name \notin ApiCNames(OutputModules)
               /\ ~IsOk(generate_function(cpp_to_rust_type_map, m, ScopeFree)))

\* The run is done, a function for which generate_function fails has its
\* record in the FFI table, and a function for which ffi_function fails has
\* neither a record nor a callable.
C8_Witness ==
  /\ pc = "done"
  /\ \E h \in HeaderIndices :
       \E m1, m2 \in Range(input.cpp_ffi_headers[h].methods) :
         /\ IsErr(generate_function(cpp_to_rust_type_map, m1, ScopeFree))
         /\ Len(FfiRecords(input.cpp_ffi_headers[h], m1.c_name)) = 1
         /\ IsErr(ffi_function(cpp_to_rust_type_map, m2))
         /\ FfiRecords(input.cpp_ffi_headers[h], m2.c_name) = <<>>
         /\ m2.c_name \notin ApiCNames(OutputModules)

\* An input has a function of which Failed(map, method) holds, map being
\* the Name Map of the input
SomeInput(Failed(_, _)) ==
  \E i \in Inputs :
    Let(generate_type_map(i.input, i.config), LAMBDA map :
      \E h \in 1..Len(i.input.cpp_ffi_headers) :
        \E m \in Range(i.input.cpp_ffi_headers[h].methods) : Failed(map, m))

\* C8 as stated: there is an input with a function for which
\* generate_function fails and ffi_function gives a record, and there is an
\* input with a function for which ffi_function fails and generate_function
\* gives a callable.
C8_IndependentBothWays ==
  /\ SomeInput(LAMBDA map, m : /\ IsErr(generate_function(map, m, ScopeFree))
                               /\ IsOk(ffi_function(map, m)))
  /\ SomeInput(LAMBDA map, m : /\ IsErr(ffi_function(map, m))
                               /\ IsOk(generate_function(map, m, ScopeFree)))

(***************************************************************************)
(* C9                                                                      *)
(***************************************************************************)
\* The headers run has been through
HeadersDone ==
  IF pc \in {"modules", "done"} THEN 1..(header_index - 1) ELSE {}

ModuleNameOf(h) ==
  include_file_to_module_name(input.cpp_ffi_headers[h].include_file,
                              config.remove_qt_prefix)

Blacklisted(h) ==
  \E i \in 1..Len(config.module_blacklist) : config.module_blacklist[i] = ModuleNameOf(h)

\* A path has the module path of header h as a proper prefix
Under(path, h) ==
  Len(path) > 2 /\ SubSeq(path, 1, 2) = <<config.crate_name, ModuleNameOf(h)>>

\* The modules of the output that hold the type with a C++ name
ModulesWithType(name) ==
  {e \in Range(OutputModules) :
     \E d \in Range(e.module.types) :
       d.kind.kind = "CppTypeWrapper" /\ d.kind.cpp_type_name = name}

\* The modules of the output that hold a callable for a free function
ModulesWithFunction(method) ==
  {e \in Range(OutputModules) :
     \E x \in Range(e.module.functions) :
       x.name = cpp_to_rust_type_map[method.cpp_method.name]}

\* The path of an entity minus its last segment
ParentPath(path) == SubSeq(path, 1, Len(path) - 1)

\* C9: for every header that is not blacklisted and that run has been
\* through, every mapped type, and every free function of the header that
\* generate_function accepts, whose path is under the header's module path
\* is in the module of the output whose path is the entity's path minus its
\* last segment, and in no other module, at any depth.
C9_EveryEntityPlaced ==
  \A h \in HeadersDone :
    ~Blacklisted(h) =>
      /\ \A t \in Range(input.types) :
           (/\ t.name \in DOMAIN cpp_to_rust_type_map
            /\ Under(cpp_to_rust_type_map[t.name], h)) =>
             /\ ModulesWithType(t.name) # {}
             /\ \A e \in ModulesWithType(t.name) :
                  e.path = ParentPath(cpp_to_rust_type_map[t.name])
      /\ \A m \in Range(input.cpp_ffi_headers[h].methods) :
           (/\ m.cpp_method.class_membership = <<>>
            /\ m.cpp_method.name \in DOMAIN cpp_to_rust_type_map
            /\ Under(cpp_to_rust_type_map[m.cpp_method.name], h)
            /\ IsOk(generate_function(cpp_to_rust_type_map, m, ScopeFree))) =>
             /\ ModulesWithFunction(m) # {}
             /\ \A e \in ModulesWithFunction(m) :
                  e.path = ParentPath(cpp_to_rust_type_map[m.cpp_method.name])

(***************************************************************************)
(* C10                                                                     *)
(***************************************************************************)
\* No type and no free function is mapped into the module of header h
NoEntities(h) == \A n \in DOMAIN cpp_to_rust_type_map : ~Under(cpp_to_rust_type_map[n], h)

\* C10: a header that is not blacklisted and into whose module nothing is
\* mapped leaves no module in the module list of run.
C10_EmptyHeaderNoModule ==
  \A h \in HeadersDone :
    (~Blacklisted(h) /\ NoEntities(h)) =>
      \A i \in 1..Len(modules) : modules[i].name # ModuleNameOf(h)

(***************************************************************************)
(* C11                                                                     *)
(***************************************************************************)
\* The multi-shape callables among the free functions of a module and the
\* methods of its direct types: one is emitted with every dispatch trait
MultiCallables(module) ==
  SelectSeq(module.functions
            \o Flatten([i \in 1..Len(module.types) |->
                          IF module.types[i].kind.kind = "CppTypeWrapper"
                          THEN module.types[i].kind.methods ELSE <<>>]),
            LAMBDA x : x.arguments.kind = "MultipleVariants")

\* The names of the dispatch traits synthesized for the direct types and
\* the free functions of a module
SynthesizedTraitNames(module) ==
  {MultiCallables(module)[i].arguments.params_trait_name :
     i \in 1..Len(MultiCallables(module))}

\* The children of a module that are named overloading
OverloadingChildren(module) ==
  SelectSeq(module.submodules, LAMBDA m : m.name = S_overloading)

\* What C11 asks of one module
OverloadingAsClaimed(module) ==
  /\ OverloadingChildren(module) # <<>> <=> SynthesizedTraitNames(module) # {}
  /\ Len(OverloadingChildren(module)) <= 1
  /\ \A i \in 1..Len(OverloadingChildren(module)) :
       Let(OverloadingChildren(module)[i], LAMBDA child :
         /\ \A d \in Range(child.types) : d.kind.kind = "MethodParametersTrait"
         /\ {d.name : d \in Range(child.types)} = SynthesizedTraitNames(module)
         /\ Len(child.types) = Cardinality(SynthesizedTraitNames(module))
         /\ child.functions = <<>>
         /\ child.submodules = <<>>)

\* C11: every module of the output has a child named overloading if and
\* only if a dispatch trait was synthesized for its direct types or its free
\* functions; there is one such child at most, its types are exactly those
\* dispatch traits, and it has no functions and no child modules.
C11_OneOverloadingChild ==
  \A e \in Range(OutputModules) : OverloadingAsClaimed(e.module)

(***************************************************************************)
(* C12                                                                     *)
(***************************************************************************)
\* The namespace segments of a C++ name, snake-cased
NamespaceSegments(name) ==
  Let(SplitColons(name), LAMBDA segments :
    [i \in 1..(Len(segments) - 1) |->
       remove_qt_prefix_and_convert_case(segments[i], "Snake", config.remove_qt_prefix)])

\* The final identifier of an entity: class-cased for a type, snake-cased
\* for a function
FinalIdentifier(e) ==
  Let(SplitColons(e.name), LAMBDA segments :
    remove_qt_prefix_and_convert_case(segments[Len(segments)],
                                      IF e.is_function THEN "Snake" ELSE "Class",
                                      config.remove_qt_prefix))

\* The first namespace segment of an entity repeats the module of its header
RepeatsModule(e) ==
  /\ NamespaceSegments(e.name) # <<>>
  /\ NamespaceSegments(e.name)[1] =
       include_file_to_module_name(e.include_file, config.remove_qt_prefix)

\* C12: the Name Map entry of an entity is the crate, the module of its
\* header, its snake-cased namespace segments and its final identifier
\* (class-cased for a type, snake-cased for a function), the first namespace
\* segment left out exactly when it equals the module of the header.
C12_PathCollapse ==
  \A name \in DOMAIN cpp_to_rust_type_map :
    Let(FirstNamed(ProcessedEntities, name, LAMBDA e : ~e.skipped), LAMBDA e :
      cpp_to_rust_type_map[name] =
        <<config.crate_name,
          include_file_to_module_name(e.include_file, config.remove_qt_prefix)>>
        \o (IF RepeatsModule(e) THEN Tail(NamespaceSegments(name))
            ELSE NamespaceSegments(name))
        \o <<FinalIdentifier(e)>>)

\* The pass is over on the class QA::It declared in QA.h and the function
\* QA::g declared in QB.h, with prefix removal: the class is at
\* [cr, a, It], the function at [cr, b, a, g].
C12_Witness ==
  /\ MapBuilt
  /\ N_QA_It \in DOMAIN cpp_to_rust_type_map
  /\ cpp_to_rust_type_map[N_QA_It] = <<N_crate, <<"a">>, <<"I","t">>>>
  /\ N_QA_g \in DOMAIN cpp_to_rust_type_map
  /\ cpp_to_rust_type_map[N_QA_g] = <<N_crate, <<"b">>, <<"a">>, <<"g">>>>

(***************************************************************************)
(* C13                                                                     *)
(***************************************************************************)
\* The classes of unknown size of the input
UnsizedClasses == {t \in Range(input.types) : IsSkippedType(t)}

\* What C13 asks for one class of unknown size: its name is not in the
\* Name Map, a pointer to it has no Rust equivalent, and no module of the
\* output declares it
UnsizedAsClaimed(t) ==
  /\ t.name \notin DOMAIN cpp_to_rust_type_map
  /\ IsErr(ffi_type(cpp_to_rust_type_map, CppType(BaseClass(t.name, <<>>), "Ptr", FALSE)))
  /\ ModulesWithType(t.name) = {}

\* C13: a class whose size is unknown never has its name in the Name Map, a
\* method argument or return of that class type fails type mapping, and no
\* module declares a type for it.
C13_UnsizedNeverMapped == \A t \in UnsizedClasses : UnsizedAsClaimed(t)

(***************************************************************************)
(* C14                                                                     *)
(***************************************************************************)
\* The identifiers of the input: the segments of the names of its types and
\* of its free functions
Identifiers ==
  UNION {Range(SplitColons(ProcessedEntities[i].name)) : i \in 1..Len(ProcessedEntities)}

\* The transform with the prefix-removal flag of the configuration
Transform(s, case) == remove_qt_prefix_and_convert_case(s, case, config.remove_qt_prefix)

\* An identifier has more than one token and a library prefix for its first
StartsWithPrefix(s) ==
  /\ Len(WordIterator(s)) > 1
  /\ WordIterator(s)[1] \in {S_Q, S_q, S_Qt}

\* C14 as amended: for a fixed target case and flag, the transform applied
\* to its own result gives the result again exactly when prefix removal is
\* off or the result does not start with a library prefix followed by
\* another token; otherwise the second application drops one more token.
C14_IdempotentUnlessPrefixAgain ==
  MapBuilt =>
    \A s \in Identifiers, case \in Case :
      Let(Transform(s, case), LAMBDA r :
        /\ Transform(r, case) = r <=> ~(config.remove_qt_prefix /\ StartsWithPrefix(r))
        /\ (config.remove_qt_prefix /\ StartsWithPrefix(r)) =>
             Transform(r, case) =
               (IF case = "Snake" THEN to_snake_case(Tail(WordIterator(r)))
                ELSE to_class_case(Tail(WordIterator(r)))))

\* The pass is over on the identifier QQDir with prefix removal: the
\* transform gives QDir, and applied to QDir it gives Dir.
C14_Witness ==
  /\ MapBuilt
  /\ config.remove_qt_prefix
  /\ <<"Q","Q","D","i","r">> \in Identifiers
  /\ Transform(<<"Q","Q","D","i","r">>, "Class") = <<"Q","D","i","r">>
  /\ Transform(<<"Q","D","i","r">>, "Class") = <<"D","i","r">>

\* C14 as stated: for a fixed target case and flag, the transform applied
\* to its own result gives the result again, for every identifier.
C14_Idempotent ==
  MapBuilt =>
    \A s \in Identifiers, case \in Case :
      Transform(Transform(s, case), case) = Transform(s, case)

(***************************************************************************)
(* C15                                                                     *)
(***************************************************************************)
N_QDirIterator == <<"Q","D","i","r","I","t","e","r","a","t","o","r">>

\* The tokens joined in a case
Joined(tokens, case) ==
  IF case = "Snake" THEN to_snake_case(tokens) ELSE to_class_case(tokens)

\* C15: the transform drops the first token of an identifier if and only if
\* prefix removal is on, the identifier has more than one token and the
\* first is Q, q or Qt; it drops no other token, never shortens an
\* identifier of one token, and joins the remaining tokens in the requested
\* case; QDirIterator gives DirIterator and dir_iterator with the flag on,
\* QDirIterator and q_dir_iterator with it off.
C15_PrefixDropped ==
  MapBuilt =>
    \A s \in Identifiers, case \in Case :
      /\ Transform(s, case) =
           Joined(IF config.remove_qt_prefix /\ StartsWithPrefix(s)
                  THEN Tail(WordIterator(s)) ELSE WordIterator(s), case)
      /\ Len(WordIterator(s)) = 1 => Transform(s, case) = Joined(<<s>>, case)
      /\ s = N_QDirIterator =>
           Transform(s, case) =
             (CASE config.remove_qt_prefix /\ case = "Class" ->
                     <<"D","i","r","I","t","e","r","a","t","o","r">>
                [] config.remove_qt_prefix /\ case = "Snake" ->
                     <<"d","i","r","_","i","t","e","r","a","t","o","r">>
                [] ~config.remove_qt_prefix /\ case = "Class" -> N_QDirIterator
                [] OTHER ->
                     <<"q","_","d","i","r","_","i","t","e","r","a","t","o","r">>)

\* The pass is over with prefix removal on the class QDirIterator, which is
\* at [cr, a, DirIterator].
C15_Witness ==
  /\ MapBuilt
  /\ config.remove_qt_prefix
  /\ input.types # <<>>
  /\ N_QDirIterator \in DOMAIN cpp_to_rust_type_map
  /\ cpp_to_rust_type_map[N_QDirIterator] =
       <<N_crate, <<"a">>, <<"D","i","r","I","t","e","r","a","t","o","r">>>>

(***************************************************************************)
(* C16                                                                     *)
(***************************************************************************)

\* An argument of a set of arguments is the receiver: it stands for the
\* argument of the C++ method whose meaning is This
IsReceiver(args, a) ==
  /\ a.ffi_index # <<>>
  /\ args.cpp_method.c_signature.arguments[a.ffi_index[1] + 1].meaning = "This"

\* The names of the arguments of a callable, or of a variant of a dispatch
\* trait, that are not the receiver
NonReceiverNames(args) ==
  IF args.kind = "SingleVariant"
  THEN {a.name : a \in {b \in Range(args.arguments) : ~IsReceiver(args, b)}}
  ELSE {a.name : a \in Range(args.shared_arguments)} \cup {args.variant_argument_name}

\* The callables of the output
EmittedCallables ==
  UNION {Range(ModuleCallables(e.module)) : e \in Range(OutputModules)}

\* The variants of the dispatch traits of the output
EmittedVariants ==
  UNION {UNION {Range(DeclVariants(d)) : d \in Range(e.module.types)} :
           e \in Range(OutputModules)}

\* C16: sanitize_rust_identifier appends one underscore to a reserved word
\* and returns every other identifier unchanged; the last name of every
\* emitted callable, and the name of every argument of an emitted callable
\* or dispatch-trait variant other than the receiver, is not a reserved
\* word.
C16_ReservedWordsGuarded ==
  /\ \A s \in Identifiers \cup ReservedWords :
       sanitize_rust_identifier(s) = IF s \in ReservedWords THEN s \o <<"_">> ELSE s
  /\ \A x \in EmittedCallables :
       /\ last_name(x.name) \notin ReservedWords
       /\ NonReceiverNames(x.arguments) \cap ReservedWords = {}
  /\ \A v \in EmittedVariants : NonReceiverNames(v) \cap ReservedWords = {}

\* A free function named type is emitted as type_, and an argument named
\* type of an emitted method as type_
C16_Witness ==
  /\ pc = "done"
  /\ \E x \in EmittedCallables :
       \/ last_name(x.name) = N_type \o <<"_">>
       \/ /\ x.arguments.kind = "SingleVariant"
          /\ last_name(x.name) = N_at
          /\ N_type \o <<"_">> \in NonReceiverNames(x.arguments)

(***************************************************************************)
(* C17                                                                     *)
(***************************************************************************)

\* The dispatch traits of the output
EmittedTraits ==
  UNION {{d \in Range(e.module.types) : d.kind.kind = "MethodParametersTrait"} :
           e \in Range(OutputModules)}

\* The argument types of a variant, the marker included
VariantTypes(v) == [i \in 1..Len(v.arguments) |-> v.arguments[i].argument_type.rust_api_type]

\* A variant ends with the allocation-place marker of a name
EndsWithMarker(v, marker_name) ==
  /\ Len(v.arguments) > 0
  /\ v.arguments[Len(v.arguments)] = allocation_place_marker(marker_name)

\* No argument of a variant is an allocation-place marker
NoMarker(v) ==
  \A i \in 1..Len(v.arguments) :
    /\ v.arguments[i].name # S_allocation_place_marker
    /\ v.arguments[i].ffi_index # <<>>

\* Two variants of a dispatch trait have different argument types
VariantsDistinct(d) ==
  \A i, j \in 1..Len(d.kind.impls) :
    i # j => VariantTypes(d.kind.impls[i]) # VariantTypes(d.kind.impls[j])

\* C17 as amended: in every dispatch trait of the output, a variant of a
\* method with allocation place Stack ends with the marker RustManaged, a
\* variant of a method with allocation place Heap ends with the marker
\* CppPointer, a variant of a method with allocation place NotApplicable
\* has no marker, and any two variants of a trait have different
\* argument-type lists, the marker included.
C17_MarkerForStackAndHeap ==
  \A d \in EmittedTraits :
    /\ \A v \in Range(d.kind.impls) :
         CASE v.cpp_method.allocation_place = "Stack" -> EndsWithMarker(v, S_RustManaged)
           [] v.cpp_method.allocation_place = "Heap" -> EndsWithMarker(v, S_CppPointer)
           [] OTHER -> NoMarker(v)
    /\ VariantsDistinct(d)

\* A dispatch trait of the output holds a Stack variant and a Heap variant
\* whose argument types differ in the marker only
C17_Witness ==
  \E d \in EmittedTraits :
    \E v, w \in Range(d.kind.impls) :
      /\ v.cpp_method.allocation_place = "Stack"
      /\ w.cpp_method.allocation_place = "Heap"
      /\ SubSeq(VariantTypes(v), 1, Len(v.arguments) - 1)
           = SubSeq(VariantTypes(w), 1, Len(w.arguments) - 1)

\* C17 as stated: every variant of every dispatch trait ends with an
\* allocation-place marker, whatever the allocation place of its method,
\* and any two variants of a trait have different argument-type lists.
C17_MarkerForEveryPlace ==
  \A d \in EmittedTraits :
    /\ \A v \in Range(d.kind.impls) :
         /\ Len(v.arguments) > 0
         /\ v.arguments[Len(v.arguments)].name = S_allocation_place_marker
    /\ VariantsDistinct(d)

(***************************************************************************)
(* C18                                                                     *)
(***************************************************************************)

\* single_rust_methods after the first loop of process_functions on the
\* methods of header h in scope t (empty when the loop panics)
SingleRustMethods(h, t) ==
  Let([i \in 1..Len(CallMethods(h, t)) |->
         ProcessOneMethod(cpp_to_rust_type_map, CallMethods(h, t)[i], CallScope(t))],
      LAMBDA firsts :
        IF FirstBad(firsts) # 0 THEN <<>>
        ELSE Flatten([i \in 1..Len(firsts) |-> firsts[i].val[1].single]))

\* The bucket of a name and a receiver kind, in input order
Bucket(rust_methods, method_name, kind) ==
  SelectSeq(rust_methods,
            LAMBDA x : last_name(x.name) = method_name /\ self_arg_kind(x) = kind)

\* The API argument types of a method after libc-alias removal
RealArgs(rust_method) ==
  [i \in 1..Len(rust_method.arguments.arguments) |->
     dealias_libc(rust_method.arguments.arguments[i].argument_type.rust_api_type)]

\* An earlier method of the bucket has the allocation place and the
\* de-aliased argument types of the method at i
HasEarlierTwin(bucket, i) ==
  \E j \in 1..(i - 1) :
    /\ bucket[j].arguments.cpp_method.allocation_place
         = bucket[i].arguments.cpp_method.allocation_place
    /\ RealArgs(bucket[j]) = RealArgs(bucket[i])

\* A method is in a result, as a single-shape callable or as a variant of a
\* dispatch trait
Survives(result, rust_method) ==
  \/ Len(SingleCallables(result, CNameOf(rust_method))) > 0
  \/ Len(TraitsWith(result, CNameOf(rust_method))) > 0

\* C18: in every bucket of a name and a receiver kind that process_functions
\* filters, a method is absent from the result exactly when an earlier
\* method of the bucket has the same allocation place and the same API
\* argument types after libc-alias removal; so the first of such methods is
\* kept, and methods of equal argument types and different allocation
\* places are both kept.
C18_DuplicatesDropped ==
  GeneratorBuilt =>
    \A h \in HeaderIndices, t \in ScopeIndices, seed \in Seeds :
      Let(SingleRustMethods(h, t), LAMBDA all :
        Let(Processed(h, t, seed), LAMBDA r :
          IsOk(r) =>
            \A method_name \in NamesOf(all) :
              \A kind \in {self_arg_kind(all[i]) : i \in 1..Len(all)} :
                Let(Bucket(all, method_name, kind), LAMBDA bucket :
                  \A i \in 1..Len(bucket) :
                    ~Survives(r.val[1], bucket[i]) <=> HasEarlierTwin(bucket, i))))

\* A bucket holds a method and a later one of the same allocation place
\* whose argument types differ in a libc alias only, and the later one is
\* absent from the result
C18_Witness ==
  /\ GeneratorBuilt
  /\ \E h \in HeaderIndices, t \in ScopeIndices, seed \in Seeds :
       Let(SingleRustMethods(h, t), LAMBDA all :
         Let(Processed(h, t, seed), LAMBDA r :
           /\ IsOk(r)
           /\ \E method_name \in NamesOf(all) :
                \E kind \in {self_arg_kind(all[i]) : i \in 1..Len(all)} :
                  Let(Bucket(all, method_name, kind), LAMBDA bucket :
                    /\ Len(bucket) = 2
                    /\ HasEarlierTwin(bucket, 2)
                    /\ bucket[1].arguments.arguments # bucket[2].arguments.arguments
                    /\ Survives(r.val[1], bucket[1])
                    /\ ~Survives(r.val[1], bucket[2]))))

(***************************************************************************)
(* C19                                                                     *)
(***************************************************************************)

\* The complete types of a set of arguments: of its arguments and of its
\* return for a single shape, of its shared arguments for a multi-shape
CompleteTypesOf(args) ==
  IF args.kind = "SingleVariant"
  THEN {a.argument_type : a \in Range(args.arguments)} \cup {args.return_type}
  ELSE {a.argument_type : a \in Range(args.shared_arguments)}

\* The complete types carried by the callables and the dispatch-trait
\* variants of the output
EmittedCompleteTypes ==
  UNION {CompleteTypesOf(x.arguments) : x \in EmittedCallables}
  \cup UNION {CompleteTypesOf(v) : v \in EmittedVariants}

\* The indirection of a Rust type; a type that is not RustType::Common has
\* none to compare
IndirectionOf(rust_type) ==
  IF rust_type.kind = "Common" THEN rust_type.indirection ELSE "NotCommon"

\* A Rust type is the flags wrapper
IsFlagsWrapper(rust_type) ==
  /\ rust_type.kind = "Common"
  /\ rust_type.base = <<S_qt_core, S_flags, S_QFlags>>

\* The conversion tag of a complete type is the one the claim gives for
\* its two Rust types
TagAsClaimed(t) ==
  /\ t.rust_api_to_c_conversion = "RefToPtr"
       <=> (IndirectionOf(t.rust_api_type) = "Ref" /\ IndirectionOf(t.rust_ffi_type) = "Ptr")
  /\ t.rust_api_to_c_conversion = "ValueToPtr"
       <=> (IndirectionOf(t.rust_api_type) = "None" /\ IndirectionOf(t.rust_ffi_type) = "Ptr")
  /\ t.rust_api_to_c_conversion = "QFlagsToUInt" <=> IsFlagsWrapper(t.rust_api_type)
  /\ (/\ ~IsFlagsWrapper(t.rust_api_type)
      /\ IndirectionOf(t.rust_api_type) = IndirectionOf(t.rust_ffi_type))
       => t.rust_api_to_c_conversion = "None"

\* C19: every complete type carried by an emitted callable or dispatch-trait
\* variant has the tag RefToPtr exactly when its API type is a reference
\* and its FFI type a pointer, ValueToPtr exactly when its API type has no
\* indirection and its FFI type is a pointer, QFlagsToUInt exactly when its
\* API type is the flags wrapper, and None when its API type is not the
\* flags wrapper and has the indirection of its FFI type, the promoted
\* return of a heap-allocating method included.
C19_TagMatchesIndirection ==
  \A t \in EmittedCompleteTypes : TagAsClaimed(t)

\* An emitted callable returns the promoted type of a heap-allocating
\* method: converted from a value to a pointer on the C++ side, a pointer
\* on both Rust sides, tag None
C19_Witness ==
  /\ pc = "done"
  /\ \E x \in EmittedCallables :
       /\ x.arguments.kind = "SingleVariant"
       /\ x.arguments.cpp_method.allocation_place = "Heap"
       /\ x.arguments.return_type.cpp_to_ffi_conversion = "ValueToPointer"
       /\ IndirectionOf(x.arguments.return_type.rust_api_type) = "Ptr"
       /\ IndirectionOf(x.arguments.return_type.rust_ffi_type) = "Ptr"
       /\ x.arguments.return_type.rust_api_to_c_conversion = "None"

(***************************************************************************)
(* C20                                                                     *)
(***************************************************************************)

\* The callables of a result have pairwise distinct names
NamesDistinct(result) ==
  \A i, j \in 1..Len(result.methods) :
    i # j => result.methods[i].name # result.methods[j].name

\* C20: for every scope process_functions is called on, the callables of
\* the returned methods list have pairwise distinct final names, so that a
\* name made of a method name and a receiver-kind caption is not the name
\* of another callable of the scope.
C20_FinalNamesDistinct ==
  GeneratorBuilt =>
    \A h \in HeaderIndices, t \in ScopeIndices, seed \in Seeds :
      Let(Processed(h, t, seed), LAMBDA r : IsOk(r) => NamesDistinct(r.val[1]))

(***************************************************************************)
(* C21                                                                     *)
(***************************************************************************)

\* generate_modules_from_header on header h ends in the panic of the usize
\* subtraction of check_name (line 501)
UnderflowIn(h, seed) ==
  Let(generate_modules_from_header(cpp_to_rust_type_map, input, config,
                                   input.cpp_ffi_headers[h], seed),
      LAMBDA r : IsPanic(r) /\ r.err = "attempt to subtract with overflow")

\* C21: generate_module never aborts on the segment-count difference: in no
\* call the run makes for a header, at any depth of the recursion, is a
\* Name Map entry of a type or of a free function of the header shorter
\* than the module path, so extra_modules_count is never negative.
C21_NoUnderflow ==
  GeneratorBuilt =>
    \A h \in HeaderIndices, seed \in Seeds : ~UnderflowIn(h, seed)

=============================================================================
